---- MODULE Spec2Model ----
(***************************************************************************)
(* GoDataCleaner: the reconciliation store (internal/storage), the local   *)
(* scanner (internal/scanner), the qBittorrent fan-out (Client.SyncAll)    *)
(* and the sync pass (runSync), as state machines.                         *)
(*                                                                         *)
(* A path is a sequence of one-character strings, so that strings.Index,   *)
(* strings.HasPrefix and slicing are computed as the Go code computes them.*)
(***************************************************************************)
EXTENDS Integers, Sequences, FiniteSets, TLC

(***************************************************************************)
(* Bounds of the model.                                                    *)
(***************************************************************************)
\* Most rows of local_files and of torrent_files in the store specification.
MaxLocalRows == 3
MaxTorrentRows == 2
\* Largest insert batch size the store is constructed with.
MaxBatch == 2
\* Most sync passes run one after the other on the same database.
MaxPasses == 2
\* Most torrents GetTorrents lists in the fan-out specification.
MaxTorrents == 3
\* Most names in a path given to the path functions.
MaxSegs == 3
\* Most local rows of the small stores of the export specification.
MaxSmallStore == 30



(***************************************************************************)
(* The state.                                                              *)
(***************************************************************************)
\* The store.
VARIABLES
    torrent_files,  \* rows of table torrent_files, by ascending id
    local_files,    \* rows of table local_files, by ascending id
    batchSize,      \* Storage.batchSize
    tables,         \* the tables of the database file that exist
    qres,           \* the last call made of the store, with its result if it has one
    qcall           \* the query call that has run its first statement only

storeVars == <<torrent_files, local_files, batchSize, tables, qres, qcall>>

\* The scanner.
VARIABLES
    spc,            \* the goroutine: "idle", "check", "visit", "walkerr", "send", "end",
                    \* "closed"
    tree,           \* the entries filepath.WalkDir will visit, in its order
    ioErrAt,        \* the entry whose ReadDir or Info fails, 0 for none
    spos,           \* the entry being visited (1-based)
    pendingFile,    \* the record the goroutine is sending
    walkErr,        \* what WalkDir returned: "none", "canceled", "io"
    received,       \* the records the consumer has received from files
    scanErrs,       \* the buffer of the channel errs (capacity 1)
    ctxDone,        \* the context of Scan is cancelled
    emittedAtCancel, \* the number of records emitted when ctx was cancelled, -1 before
    cancelAt,       \* the entry being visited when ctx was cancelled, 0 before
    cbErr           \* the err WalkDir gave the callback: "none", "io"

scanVars == <<spc, tree, ioErrAt, spos, pendingFile, walkErr, received, scanErrs,
              ctxDone, emittedAtCancel, cancelAt, cbErr>>

\* The sync pass.
VARIABLES
    pc,           \* where runSync is: "login", "clearTorrent", "getTorrents", "fetch",
                  \* "clearLocal", "scan", "insertLocal", "done", "fatal"
    pass,         \* the number of the pass
    torrents,     \* the hashes GetTorrents returned
    fetchIdx,     \* the loop index over torrents (1-based)
    allFiles,     \* the torrent files gathered by the loop
    warnings,     \* what the pass logged with log.Printf
    fatalAt,      \* the call whose error ended the pass with log.Fatalf, "" if none
    prevTorrent,  \* torrent_files as the pass found it
    prevLocal     \* local_files as the pass found it

syncVars == <<pc, pass, torrents, fetchIdx, allFiles, warnings, fatalAt, prevTorrent,
              prevLocal>>

\* The remote fan-out.
VARIABLES
    fpc,         \* the goroutine of SyncAll: "idle", "list", "spawn", "closed"
    cfgWorkers,  \* the maxWorkers argument of NewClient
    maxWorkers,  \* Client.maxWorkers
    nTorrents,   \* the torrents listed are 1..nTorrents
    failing,     \* the torrents whose files the remote fails to give
    wpc,         \* per torrent, its worker: "none", "start", "fetch", "lock", "send", "done"
    widx,        \* per torrent, the index of the next file its worker sends
    mu,          \* the worker holding the mutex, 0 when free
    nextT,       \* the next torrent of the loop that calls g.Go
    gErr,        \* the first non-nil error a worker returned to the errgroup
    fctxDone,    \* the context of SyncAll is cancelled
    cancelPhase, \* fpc when the context was cancelled, "" before
    fileStream,  \* the files the consumer has received
    errBuf,      \* the buffer of the channel errs (capacity 1)
    errStream    \* the errors the consumer has received

fanVars == <<fpc, cfgWorkers, maxWorkers, nTorrents, failing, wpc, widx, mu, nextT, gErr,
             fctxDone, cancelPhase, fileStream, errBuf, errStream>>

\* The path functions, called on one path.
VARIABLES
    inPath,   \* the path given to the function
    pathOut   \* the function called last and what it returned

pathVars == <<inPath, pathOut>>

\* The configuration and the start of a command.
VARIABLES
    cfgFile,  \* the worker count and the batch size of the configuration file
    cfgEnv,   \* QBITTORRENT_MAX_WORKERS and SQLITE_BATCH_SIZE of the environment
    cfg,      \* the Config being loaded
    cpc,      \* where runSync is: "idle", "load", "mkdir", "store", "client", "login",
              \* "scan", "done", "fatal"
    comps     \* the I/O begun and the components made, in order

cfgVars == <<cfgFile, cfgEnv, cfg, cpc, comps>>

\* One call of InsertTorrentFiles or InsertLocalFiles, statement by statement.
VARIABLES
    ins       \* the call: where it is, its list, its transaction

insVars == <<ins>>

vars == <<storeVars, scanVars, syncVars, fanVars, pathVars, cfgVars, insVars>>


(***************************************************************************)
(* Strings.                                                                *)
(***************************************************************************)
RECURSIVE IndexFrom(_, _, _)
\* strings.Index, searching from the 0-based position i: the smallest
\* position >= i at which sub occurs in s, or -1.
IndexFrom(s, sub, i) ==
    IF i + Len(sub) > Len(s) THEN -1
    ELSE IF SubSeq(s, i + 1, i + Len(sub)) = sub THEN i
    ELSE IndexFrom(s, sub, i + 1)

\* strings.Index(s, sub), 0-based, -1 when sub does not occur.
Index(s, sub) == IndexFrom(s, sub, 0)

\* strings.Contains(s, sub).
Contains(s, sub) == Index(s, sub) # -1

\* strings.HasPrefix(s, prefix).
HasPrefix(s, prefix) ==
    /\ Len(s) >= Len(prefix)
    /\ SubSeq(s, 1, Len(prefix)) = prefix

\* The Go slice expression s[i:], i 0-based.
SliceFrom(s, i) == SubSeq(s, i + 1, Len(s))

(***************************************************************************)
(* Path normalisation (storage).                                           *)
(***************************************************************************)
MarkerMovies == <<"/", "m", "o", "v", "i", "e", "s", "/">>
MarkerShows == <<"/", "s", "h", "o", "w", "s", "/">>
Marker4k == <<"/", "4", "k", "/">>
MntPrefix == <<"/", "m", "n", "t">>

\* markers := []string{"/movies/", "/shows/", "/4k/"}
markers == <<MarkerMovies, MarkerShows, Marker4k>>

RECURSIVE extractRelativePathFrom(_, _)
\* The loop of extractRelativePath from marker number k on: the first marker,
\* in the order of the list, that occurs in the path decides.
extractRelativePathFrom(fullPath, k) ==
    IF k > Len(markers) THEN fullPath
    ELSE IF Index(fullPath, markers[k]) # -1
         THEN SliceFrom(fullPath, Index(fullPath, markers[k]))
         ELSE extractRelativePathFrom(fullPath, k + 1)

extractRelativePath(fullPath) == extractRelativePathFrom(fullPath, 1)

\* normalizeLocalPath: path[4:] when the path starts with "/mnt".
normalizeLocalPath(path) ==
    IF HasPrefix(path, MntPrefix) THEN SliceFrom(path, 4) ELSE path

(***************************************************************************)
(* Category of a scanned file (scanner).                                   *)
(***************************************************************************)
\* Scanner.categories, in the order NewScanner lists them, with the pattern
\* "/" + category + "/" categorize builds for each.
categories == <<"4k", "movies", "shows">>
categoryPattern == <<Marker4k, MarkerMovies, MarkerShows>>

RECURSIVE categorizeFromMoviesFirst(_, _)
\* A faulty categorizeFrom: the categories are tried in the order movies,
\* 4k, shows.
categorizeFromMoviesFirst(path, k) ==
    LET order == <<2, 1, 3>>
    IN  IF k > Len(categories) THEN "unknown"
        ELSE IF Contains(path, categoryPattern[order[k]]) THEN categories[order[k]]
        ELSE categorizeFromMoviesFirst(path, k + 1)

RECURSIVE categorizeFrom(_, _)
categorizeFrom(path, k) ==
    IF k > Len(categories) THEN "unknown"
    ELSE IF Contains(path, categoryPattern[k]) THEN categories[k]
    ELSE categorizeFrom(path, k + 1)

\* Scanner.categorize on a slash-separated path.
categorize(path) == categorizeFrom(path, 1)

(***************************************************************************)
(* The store: two tables, kept as sequences of rows in id order.           *)
(***************************************************************************)
\* The row InsertTorrentFiles writes for one models.TorrentFile.
TorrentRow(file) ==
    [torrent_hash |-> file.TorrentHash, torrent_name |-> file.TorrentName,
     file_name |-> file.FileName, file_path |-> file.FilePath,
     relative_path |-> extractRelativePath(file.FilePath), size |-> file.Size]

\* The row InsertLocalFiles writes for one models.LocalFile: the stored path
\* is the path without "/mnt", the key is computed from the stored path.
LocalRow(file) ==
    [file_path |-> normalizeLocalPath(file.FilePath), file_name |-> file.FileName,
     relative_path |-> extractRelativePath(normalizeLocalPath(file.FilePath)),
     size |-> file.Size, category |-> file.Category]

\* INSERT INTO torrent_files: a plain append with the next id.
ExecInsertTorrent(table, file) == Append(table, TorrentRow(file))

\* A faulty ExecInsertLocal: a plain INSERT that ignores the UNIQUE
\* constraint on file_path.
ExecInsertLocalNoReplace(table, file) == Append(table, LocalRow(file))

\* INSERT OR REPLACE INTO local_files: the row with the same file_path, if
\* any, is deleted and the new row is appended with the next id.
ExecInsertLocal(table, file) ==
    Append(SelectSeq(table, LAMBDA r : r.file_path # LocalRow(file).file_path),
           LocalRow(file))

RECURSIVE InsertTorrentBatch(_, _, _, _)
\* for _, file := range files[i:end] of InsertTorrentFiles, i and end 0-based.
InsertTorrentBatch(table, files, i, end) ==
    IF i >= end THEN table
    ELSE InsertTorrentBatch(ExecInsertTorrent(table, files[i + 1]), files, i + 1, end)

RECURSIVE InsertLocalBatch(_, _, _, _)
\* for _, file := range files[i:end] of InsertLocalFiles.
InsertLocalBatch(table, files, i, end) ==
    IF i >= end THEN table
    ELSE InsertLocalBatch(ExecInsertLocal(table, files[i + 1]), files, i + 1, end)

\* A faulty BatchEnd: every batch runs to the end of the list.
BatchEndWholeList(files, i, bs) == Len(files)

\* end := i + s.batchSize; if end > len(files) { end = len(files) }
BatchEnd(files, i, bs) == IF i + bs > Len(files) THEN Len(files) ELSE i + bs

RECURSIVE InsertTorrentLoop(_, _, _, _)
\* for i := 0; i < len(files); i += s.batchSize, for a batch size >= 1.
InsertTorrentLoop(table, files, i, bs) ==
    IF i >= Len(files) THEN table
    ELSE InsertTorrentLoop(InsertTorrentBatch(table, files, i, BatchEnd(files, i, bs)),
                           files, i + bs, bs)

\* A faulty InsertLocalLoop: only the first batch is inserted.
InsertLocalLoopOneBatch(table, files, i, bs) ==
    IF i >= Len(files) THEN table
    ELSE InsertLocalBatch(table, files, i, BatchEnd(files, i, bs))

RECURSIVE InsertLocalLoop(_, _, _, _)
InsertLocalLoop(table, files, i, bs) ==
    IF i >= Len(files) THEN table
    ELSE InsertLocalLoop(InsertLocalBatch(table, files, i, BatchEnd(files, i, bs)),
                         files, i + bs, bs)

\* Storage.InsertTorrentFiles in one transaction.  failAt = 0: every statement
\* and the commit succeed.  failAt in 1..Len(files): the statement of that
\* record fails.  failAt = Len(files) + 1: the commit fails.  On a failure the
\* deferred Rollback leaves the table as it was.
InsertTorrentFiles(table, files, bs, failAt) ==
    IF Len(files) = 0 THEN [table |-> table, err |-> FALSE]
    ELSE IF failAt # 0 THEN [table |-> table, err |-> TRUE]
    ELSE [table |-> InsertTorrentLoop(table, files, 0, bs), err |-> FALSE]

\* Storage.InsertLocalFiles in one transaction, failAt as above.
InsertLocalFiles(table, files, bs, failAt) ==
    IF Len(files) = 0 THEN [table |-> table, err |-> FALSE]
    ELSE IF failAt # 0 THEN [table |-> table, err |-> TRUE]
    ELSE [table |-> InsertLocalLoop(table, files, 0, bs), err |-> FALSE]

\* Storage.ClearTorrentFiles / ClearLocalFiles: DELETE FROM the table, one
\* statement outside any transaction, committed when it returns.
ClearTable(table, fails) ==
    IF fails THEN [table |-> table, err |-> TRUE] ELSE [table |-> <<>>, err |-> FALSE]

(***************************************************************************)
(* Queries.                                                                *)
(***************************************************************************)
\* The letters SQLite's LIKE folds, and the bytes of the model's alphabet in
\* ascending order (the BINARY collation of ORDER BY on a TEXT column).
UpperLetters == <<"A", "B", "C", "D", "E", "F", "G", "H", "I", "J", "K", "L", "M",
                  "N", "O", "P", "Q", "R", "S", "T", "U", "V", "W", "X", "Y", "Z">>
LowerLetters == <<"a", "b", "c", "d", "e", "f", "g", "h", "i", "j", "k", "l", "m",
                  "n", "o", "p", "q", "r", "s", "t", "u", "v", "w", "x", "y", "z">>
ByteOrder == <<"%", ".", "/", "0", "1", "2", "3", "4", "5", "6", "7", "8", "9">>
             \o UpperLetters \o <<"_">> \o LowerLetters

Fold(c) ==
    IF \E i \in 1..Len(UpperLetters) : UpperLetters[i] = c
    THEN LowerLetters[CHOOSE i \in 1..Len(UpperLetters) : UpperLetters[i] = c]
    ELSE c

RECURSIVE LikeMatch(_, _)
\* SQLite's  s LIKE pat : "%" matches any run of characters, "_" any one
\* character, any other character itself up to the case of ASCII letters.
LikeMatch(pat, s) ==
    IF pat = <<>> THEN s = <<>>
    ELSE IF Head(pat) = "%"
         THEN \E k \in 0..Len(s) : LikeMatch(Tail(pat), SliceFrom(s, k))
    ELSE IF s = <<>> THEN FALSE
    ELSE /\ Head(pat) = "_" \/ Fold(Head(pat)) = Fold(Head(s))
         /\ LikeMatch(Tail(pat), Tail(s))

\* searchPattern := "%" + opts.Search + "%"
SearchPattern(search) == <<"%">> \o search \o <<"%">>

ByteRank(c) == CHOOSE i \in 1..Len(ByteOrder) : ByteOrder[i] = c

RECURSIVE TextLess(_, _)
\* a < b for two TEXT values under the BINARY collation.
TextLess(a, b) ==
    IF b = <<>> THEN FALSE
    ELSE IF a = <<>> THEN TRUE
    ELSE IF Head(a) = Head(b) THEN TextLess(Tail(a), Tail(b))
    ELSE ByteRank(Head(a)) < ByteRank(Head(b))

(***************************************************************************)
(* Go's int is 64 bits wide on the platforms the program is built for.  A  *)
(* page number is kept as four 16-bit limbs in two's complement, the least *)
(* significant first, so that (Page - 1) * PerPage wraps as it does in Go.  *)
(***************************************************************************)
Limb == 65536

\* The int of value n, for 0 <= n < 2^31.
Int64(n) == <<n % Limb, (n \div Limb) % Limb, 0, 0>>

\* math.MaxInt64, the largest page strconv.Atoi can return.
MaxInt64 == <<Limb - 1, Limb - 1, Limb - 1, (Limb \div 2) - 1>>

IsNegative(v) == v[4] >= Limb \div 2
IsZero(v) == v = <<0, 0, 0, 0>>

\* v - 1.
Dec64(v) ==
    IF v[1] > 0 THEN <<v[1] - 1, v[2], v[3], v[4]>>
    ELSE IF v[2] > 0 THEN <<Limb - 1, v[2] - 1, v[3], v[4]>>
    ELSE IF v[3] > 0 THEN <<Limb - 1, Limb - 1, v[3] - 1, v[4]>>
    ELSE <<Limb - 1, Limb - 1, Limb - 1, (v[4] + Limb - 1) % Limb>>

\* v * m for 0 <= m <= 1000, the bits above the 64th lost.
Mul64(v, m) ==
    LET p1 == v[1] * m
        p2 == v[2] * m + (p1 \div Limb)
        p3 == v[3] * m + (p2 \div Limb)
        p4 == v[4] * m + (p3 \div Limb)
    IN  <<p1 % Limb, p2 % Limb, p3 % Limb, p4 % Limb>>

\* offset := (opts.Page - 1) * opts.PerPage
PageOffset(page, perPage) == Mul64(Dec64(page), perPage)

\* The rows OFFSET v skips of n rows: none for a negative v (SQLite reads a
\* negative OFFSET as 0), all of them for a v beyond n.
SkippedRows(v, n) ==
    IF IsNegative(v) THEN 0
    ELSE IF v[2] = 0 /\ v[3] = 0 /\ v[4] = 0 /\ v[1] <= n THEN v[1]
    ELSE n

\* normalizeQueryOptions.
normalizeQueryOptions(opts) ==
    [opts EXCEPT
        !.Page = IF IsNegative(opts.Page) \/ IsZero(opts.Page) THEN Int64(1) ELSE opts.Page,
        !.PerPage = IF opts.PerPage < 1 THEN 100
                    ELSE IF opts.PerPage > 1000 THEN 1000 ELSE opts.PerPage,
        !.Order = IF opts.Order # "asc" /\ opts.Order # "desc" THEN "asc" ELSE opts.Order]

\* allowedOrphanColumns: the sort names of the whitelist; each maps to the
\* column of local_files of the same name.
allowedOrphanColumns == {"file_path", "file_name", "size", "category"}

\* allowedTorrentColumns and allowedLocalColumns: each name maps to itself.
allowedTorrentColumns == {"torrent_hash", "torrent_name", "file_name", "file_path", "size"}
allowedLocalColumns == {"file_path", "file_name", "size", "category"}

\* The ORDER BY clause of the three queries, as the column and the direction
\* written into the query text: the clause starts as the default and is
\* replaced only when opts.Sort is a name of the whitelist.
OrderByIdAsc == [col |-> "id", dir |-> "asc"]
OrderBySizeDesc == [col |-> "size", dir |-> "desc"]

\* A faulty OrderClause: relative_path, a column of both tables that is in
\* no whitelist, is taken as a sort name too.
OrderClauseWiderList(opts, allowed, default) ==
    IF opts.Sort # "" /\ opts.Sort \in allowed \cup {"relative_path"}
    THEN [col |-> opts.Sort, dir |-> opts.Order]
    ELSE default

OrderClause(opts, allowed, default) ==
    IF opts.Sort # "" /\ opts.Sort \in allowed
    THEN [col |-> opts.Sort, dir |-> opts.Order]
    ELSE default

\* Whether row a comes strictly before row b under ORDER BY col order.
RowBefore(a, b, col, order) ==
    LET lt(x, y) == IF col = "size" THEN x.size < y.size
                    ELSE IF col = "torrent_hash"
                         THEN x.torrent_hash = "h1" /\ y.torrent_hash = "h2"
                    ELSE IF col = "torrent_name"
                         THEN x.torrent_name = "h1" /\ y.torrent_name = "h2"
                    ELSE IF col = "category"
                         THEN \E i, j \in 1..4 :
                                /\ <<"4k", "movies", "shows", "unknown">>[i] = x.category
                                /\ <<"4k", "movies", "shows", "unknown">>[j] = y.category
                                /\ i < j
                    ELSE IF col = "file_name" THEN TextLess(x.file_name, y.file_name)
                    ELSE IF col = "file_path" THEN TextLess(x.file_path, y.file_path)
                    ELSE IF col = "relative_path"
                         THEN TextLess(x.relative_path, y.relative_path)
                    ELSE FALSE
    IN  IF order = "desc" THEN lt(b, a) ELSE lt(a, b)

\* The columns of each table that have an index (Storage.Initialize).
indexedTorrentColumns == {"torrent_hash", "file_path", "file_name", "relative_path"}
indexedLocalColumns == {"file_path", "category", "file_name", "relative_path"}

\* Whether SQLite answers the ORDER BY clause by walking the index of its
\* column backwards: the direction is DESC, the column has an index, and the
\* WHERE clause has no "category = ?" term (with that term SQLite searches
\* idx_local_category and sorts the rows it finds).
WalksIndexBackwards(clause, indexed, categoryTerm) ==
    /\ clause.dir = "desc"
    /\ clause.col \in indexed
    /\ ~categoryTerm

\* ORDER BY col order.  SQL leaves the order of the rows that compare equal
\* to the engine: SQLite returns them in the order of its scan, which is the
\* ascending order of the ids (the order of rows), and the descending one
\* when it walks an index backwards.  A row's place is one more than the
\* number of rows that go before it: those strictly before it, and those
\* equal to it that the scan produced earlier.
OrderBy(rows, col, order, backwards) ==
    IF rows = <<>> \/ col = "id" THEN rows
    ELSE LET n == Len(rows)
             ahead(j, k) ==
                 \/ RowBefore(rows[j], rows[k], col, order)
                 \/ /\ ~RowBefore(rows[k], rows[j], col, order)
                    /\ IF backwards THEN j > k ELSE j < k
             place == [k \in 1..n |-> 1 + Cardinality({j \in 1..n : ahead(j, k)})] \o <<>>
             from == [p \in 1..n |-> CHOOSE k \in 1..n : place[k] = p] \o <<>>
         IN  [p \in 1..n |-> rows[from[p]]]

\* LIMIT limit OFFSET offset.
LimitOffset(rows, limit, offset) ==
    SubSeq(rows, offset + 1, IF offset + limit > Len(rows) THEN Len(rows) ELSE offset + limit)

NULL == [null |-> TRUE]

RECURSIVE LeftJoin(_, _)
\* local_files l LEFT JOIN torrent_files t ON l.relative_path = t.relative_path:
\* one joined row per matching torrent row, and one row with t NULL for a
\* local row that matches none.
LeftJoin(lrows, trows) ==
    IF lrows = <<>> THEN <<>>
    ELSE IF Len(lrows) = 1
    THEN LET l == lrows[1]
             matches == SelectSeq(trows, LAMBDA t : t.relative_path = l.relative_path)
         IN  IF matches = <<>> THEN <<[l |-> l, t |-> NULL]>>
             ELSE [k \in 1..Len(matches) |-> [l |-> l, t |-> matches[k]]]
    ELSE LET half == Len(lrows) \div 2
         IN  LeftJoin(SubSeq(lrows, 1, half), trows)
                 \o LeftJoin(SubSeq(lrows, half + 1, Len(lrows)), trows)

\* A faulty OrphanWhere: the test "t.relative_path IS NULL" is lost.
OrphanWhereNoNullTest(j, opts) ==
    /\ opts.Search # <<>> =>
          \/ LikeMatch(SearchPattern(opts.Search), j.l.file_name)
          \/ LikeMatch(SearchPattern(opts.Search), j.l.file_path)
    /\ opts.Category # "" => j.l.category = opts.Category

\* The WHERE clause of GetOrphanFiles on one joined row.
OrphanWhere(j, opts) ==
    /\ j.t = NULL
    /\ opts.Search # <<>> =>
          \/ LikeMatch(SearchPattern(opts.Search), j.l.file_name)
          \/ LikeMatch(SearchPattern(opts.Search), j.l.file_path)
    /\ opts.Category # "" => j.l.category = opts.Category

\* The models.OrphanFile scanned from a result row.
OrphanFile(l) ==
    [FilePath |-> l.file_path, FileName |-> l.file_name, Size |-> l.size,
     Category |-> l.category]

\* Storage.GetOrphanFiles: the page of files and the total.
GetOrphanFiles(lrows, trows, options) ==
    LET opts == normalizeQueryOptions(options)
        joined == LeftJoin(lrows, trows)
        hits == SelectSeq(joined, LAMBDA j : OrphanWhere(j, opts))
        rows == [k \in 1..Len(hits) |-> hits[k].l]
        clause == OrderClause(opts, allowedOrphanColumns, OrderBySizeDesc)
        ordered == OrderBy(rows, clause.col, clause.dir,
                           WalksIndexBackwards(clause, indexedLocalColumns,
                                               opts.Category # ""))
        page == LimitOffset(ordered, opts.PerPage,
                            SkippedRows(PageOffset(opts.Page, opts.PerPage), Len(ordered)))
    IN  [files |-> [k \in 1..Len(page) |-> OrphanFile(page[k])], total |-> Len(hits),
         orderBy |-> clause]

\* The WHERE clause of the store's GetTorrentFiles on one row.
TorrentWhere(r, opts) ==
    opts.Search # <<>> =>
        \/ LikeMatch(SearchPattern(opts.Search), r.file_name)
        \/ LikeMatch(SearchPattern(opts.Search), r.file_path)

\* The models.TorrentFile scanned from a result row: relative_path is not
\* selected.
TorrentFileOfRow(r) ==
    [TorrentHash |-> r.torrent_hash, TorrentName |-> r.torrent_name,
     FileName |-> r.file_name, FilePath |-> r.file_path, Size |-> r.size]

\* Storage.GetTorrentFiles: the page of files and the total.
StorageGetTorrentFiles(trows, options) ==
    LET opts == normalizeQueryOptions(options)
        hits == SelectSeq(trows, LAMBDA r : TorrentWhere(r, opts))
        clause == OrderClause(opts, allowedTorrentColumns, OrderByIdAsc)
        ordered == OrderBy(hits, clause.col, clause.dir,
                           WalksIndexBackwards(clause, indexedTorrentColumns, FALSE))
        page == LimitOffset(ordered, opts.PerPage,
                            SkippedRows(PageOffset(opts.Page, opts.PerPage), Len(ordered)))
    IN  [files |-> [k \in 1..Len(page) |-> TorrentFileOfRow(page[k])], total |-> Len(hits),
         orderBy |-> clause]

\* The WHERE clause of GetLocalFiles on one row.
LocalWhere(r, opts) ==
    /\ opts.Search # <<>> =>
          \/ LikeMatch(SearchPattern(opts.Search), r.file_name)
          \/ LikeMatch(SearchPattern(opts.Search), r.file_path)
    /\ opts.Category # "" => r.category = opts.Category

\* The models.LocalFile scanned from a result row.
LocalFileOfRow(r) ==
    [FilePath |-> r.file_path, FileName |-> r.file_name, Size |-> r.size,
     Category |-> r.category]

\* Storage.GetLocalFiles: the page of files and the total.
GetLocalFiles(lrows, options) ==
    LET opts == normalizeQueryOptions(options)
        hits == SelectSeq(lrows, LAMBDA r : LocalWhere(r, opts))
        clause == OrderClause(opts, allowedLocalColumns, OrderByIdAsc)
        ordered == OrderBy(hits, clause.col, clause.dir,
                           WalksIndexBackwards(clause, indexedLocalColumns,
                                               opts.Category # ""))
        page == LimitOffset(ordered, opts.PerPage,
                            SkippedRows(PageOffset(opts.Page, opts.PerPage), Len(ordered)))
    IN  [files |-> [k \in 1..Len(page) |-> LocalFileOfRow(page[k])], total |-> Len(hits),
         orderBy |-> clause]

(***************************************************************************)
(* Inputs of the store specification.                                      *)
(***************************************************************************)
PathMntMoviesA == MntPrefix \o MarkerMovies \o <<"a">>
PathMoviesA == MarkerMovies \o <<"a">>
PathMntShowsB == MntPrefix \o MarkerShows \o <<"b">>
PathMntXC == MntPrefix \o <<"/", "x", "/", "c">>
PathDataMoviesA == <<"/", "d">> \o MarkerMovies \o <<"a">>
PathDlMoviesA == <<"/", "e">> \o MarkerMovies \o <<"a">>
PathXC == <<"/", "x", "/", "c">>

\* A models.LocalFile as the scanner builds it.
LocalFile(path, name, size) ==
    [FilePath |-> path, FileName |-> name, Size |-> size, Category |-> categorize(path)]

\* A models.TorrentFile as Client.GetTorrentFiles builds it.
TorrentFile(hash, path, name, size) ==
    [TorrentHash |-> hash, TorrentName |-> hash, FileName |-> name, FilePath |-> path,
     Size |-> size]

LocalPool ==
    { LocalFile(PathMntMoviesA, <<"a">>, 100),
      LocalFile(PathMoviesA, <<"a">>, 300),
      LocalFile(PathMntShowsB, <<"b">>, 200),
      LocalFile(PathMntXC, <<"c">>, 200) }

TorrentPool ==
    { TorrentFile("h1", PathDataMoviesA, <<"a">>, 100),
      TorrentFile("h2", PathDlMoviesA, <<"a">>, 100),
      TorrentFile("h2", PathXC, <<"c">>, 200) }

\* The lists an insert call is given: one or two records.
SeqsUpTo2(S) == {<<x>> : x \in S} \cup {<<x, y>> : x \in S, y \in S}

\* The options of a query: page and perPage below, at and above their limits.
QueryPages == {Int64(n) : n \in 0..3} \cup {MaxInt64}
QueryPerPages == {0, 1, 2}
QueryOpts(page, perPage) ==
    [Page |-> page, PerPage |-> perPage, Sort |-> "", Order |-> "", Search |-> <<>>,
     Category |-> ""]

\* The sort names a caller gives: of every whitelist, of two of the three, a
\* column of none, and text that is no column; the orders: valid and not.
QuerySorts == {"size", "file_name", "category", "relative_path",
               "size; DROP TABLE local_files"}
QueryOrders == {"asc", "desc", ""}

\* The search strings: a letter in both cases, part of a path, and the two
\* characters LIKE reads as wildcards.
QuerySearches == {<<"a">>, <<"A">>, <<"/", "x", "/">>, <<"O", "V">>, <<"_">>, <<"%">>}
QueryCategories == {"", "movies"}

\* The options given to a query: pages, or a sort, or a search.
QueryInputs ==
    {QueryOpts(page, perPage) : page \in QueryPages, perPage \in QueryPerPages}
    \cup {[QueryOpts(Int64(1), 0) EXCEPT !.Sort = sort, !.Order = order] :
              sort \in QuerySorts, order \in QueryOrders}
    \cup {[QueryOpts(Int64(1), 0) EXCEPT !.Search = search, !.Category = cat] :
              search \in QuerySearches, cat \in QueryCategories}

(***************************************************************************)
(* The store: inserts and clears in any order, and the query calls.        *)
(***************************************************************************)
NoQuery == [kind |-> "none"]

\* A query call runs two statements on the database, with no transaction
\* around them: SELECT COUNT(*), then the SELECT of the page.  Another
\* process on the same database file (the sync command) can commit between
\* the two.  qcall keeps the call between its statements: its source, its
\* options, the total it counted, and whether the tables changed since.
NoPending == [source |-> "none"]

\* qcall after a statement that leaves the tables as before or changes them.
AfterWrite(changed) ==
    IF qcall = NoPending THEN qcall
    ELSE [qcall EXCEPT !.between = @ \/ changed]

\* The tables Storage.Initialize creates, torrent_files before local_files.
createdTables == {"torrent_files", "local_files"}

StoreInit ==
    /\ torrent_files = <<>>
    /\ local_files = <<>>
    /\ batchSize \in 1..MaxBatch
    /\ tables = createdTables
    /\ qres = NoQuery
    /\ qcall = NoPending

\* A call of InsertTorrentFiles that succeeds or fails at some record.
StoreInsertTorrent ==
    \E files \in SeqsUpTo2(TorrentPool), failAt \in 0..1 :
        /\ Len(torrent_files) + Len(files) <= MaxTorrentRows
        /\ torrent_files' = InsertTorrentFiles(torrent_files, files, batchSize, failAt).table
        /\ qres' = NoQuery
        /\ qcall' = AfterWrite(torrent_files' # torrent_files)
        /\ UNCHANGED <<local_files, batchSize, tables>>
    /\ UNCHANGED <<scanVars, syncVars, fanVars, pathVars, cfgVars, insVars>>

\* A call of InsertLocalFiles; qres keeps the records given and the outcome.
StoreInsertLocal ==
    \E files \in SeqsUpTo2(LocalPool), failAt \in 0..1 :
        /\ Len(local_files) + Len(files) <= MaxLocalRows
        /\ local_files' = InsertLocalFiles(local_files, files, batchSize, failAt).table
        /\ qres' = [kind |-> "insertLocal", files |-> files,
                    err |-> InsertLocalFiles(local_files, files, batchSize, failAt).err]
        /\ qcall' = AfterWrite(local_files' # local_files)
        /\ UNCHANGED <<torrent_files, batchSize, tables>>
    /\ UNCHANGED <<scanVars, syncVars, fanVars, pathVars, cfgVars, insVars>>

StoreClearTorrent ==
    /\ torrent_files' = ClearTable(torrent_files, FALSE).table
    /\ qres' = NoQuery
    /\ qcall' = AfterWrite(torrent_files' # torrent_files)
    /\ UNCHANGED <<local_files, batchSize, tables>>
    /\ UNCHANGED <<scanVars, syncVars, fanVars, pathVars, cfgVars, insVars>>

StoreClearLocal ==
    /\ local_files' = ClearTable(local_files, FALSE).table
    /\ qres' = NoQuery
    /\ qcall' = AfterWrite(local_files' # local_files)
    /\ UNCHANGED <<torrent_files, batchSize, tables>>
    /\ UNCHANGED <<scanVars, syncVars, fanVars, pathVars, cfgVars, insVars>>

\* The kinds of qres that are queries of one page.
QueryKinds == {"torrent", "local", "orphan"}

\* The last call of InsertLocalFiles, when no other insert or clear came
\* after it.
LastInsert ==
    IF qres.kind = "insertLocal" THEN qres
    ELSE IF qres.kind \in QueryKinds THEN qres.after
    ELSE NoQuery

\* The first statement of a query call: the options, the total counted.
Counted(source, opts, total) ==
    [source |-> source, opts |-> opts, total |-> total, between |-> FALSE]

\* What the call returns after its second statement: the page selected
\* now, with the total counted before.
Returned(page) ==
    [kind |-> qcall.source, opts |-> qcall.opts, after |-> LastInsert,
     between |-> qcall.between, res |-> [page EXCEPT !.total = qcall.total]]

\* GetOrphanFiles up to its SELECT COUNT(*).
StoreCountOrphans ==
    /\ qcall = NoPending
    /\ \E opts \in QueryInputs :
          qcall' = Counted("orphan", opts,
                           GetOrphanFiles(local_files, torrent_files, opts).total)
    /\ UNCHANGED <<torrent_files, local_files, batchSize, tables, qres>>
    /\ UNCHANGED <<scanVars, syncVars, fanVars, pathVars, cfgVars, insVars>>

\* The rest of GetOrphanFiles: the SELECT of the page, and the return.
StoreQueryOrphans ==
    /\ qcall # NoPending /\ qcall.source = "orphan"
    /\ qres' = Returned(GetOrphanFiles(local_files, torrent_files, qcall.opts))
    /\ qcall' = NoPending
    /\ UNCHANGED <<torrent_files, local_files, batchSize, tables>>
    /\ UNCHANGED <<scanVars, syncVars, fanVars, pathVars, cfgVars, insVars>>

\* The store's GetTorrentFiles up to its SELECT COUNT(*).
StoreCountTorrents ==
    /\ qcall = NoPending
    /\ \E opts \in QueryInputs :
          qcall' = Counted("torrent", opts, StorageGetTorrentFiles(torrent_files, opts).total)
    /\ UNCHANGED <<torrent_files, local_files, batchSize, tables, qres>>
    /\ UNCHANGED <<scanVars, syncVars, fanVars, pathVars, cfgVars, insVars>>

\* The rest of the store's GetTorrentFiles.
StoreQueryTorrents ==
    /\ qcall # NoPending /\ qcall.source = "torrent"
    /\ qres' = Returned(StorageGetTorrentFiles(torrent_files, qcall.opts))
    /\ qcall' = NoPending
    /\ UNCHANGED <<torrent_files, local_files, batchSize, tables>>
    /\ UNCHANGED <<scanVars, syncVars, fanVars, pathVars, cfgVars, insVars>>

\* GetLocalFiles up to its SELECT COUNT(*).
StoreCountLocal ==
    /\ qcall = NoPending
    /\ \E opts \in QueryInputs :
          qcall' = Counted("local", opts, GetLocalFiles(local_files, opts).total)
    /\ UNCHANGED <<torrent_files, local_files, batchSize, tables, qres>>
    /\ UNCHANGED <<scanVars, syncVars, fanVars, pathVars, cfgVars, insVars>>

\* The rest of GetLocalFiles.
StoreQueryLocal ==
    /\ qcall # NoPending /\ qcall.source = "local"
    /\ qres' = Returned(GetLocalFiles(local_files, qcall.opts))
    /\ qcall' = NoPending
    /\ UNCHANGED <<torrent_files, local_files, batchSize, tables>>
    /\ UNCHANGED <<scanVars, syncVars, fanVars, pathVars, cfgVars, insVars>>

StoreNext ==
    \/ StoreInsertTorrent
    \/ StoreInsertLocal
    \/ StoreClearTorrent
    \/ StoreClearLocal

\* The queries of one page, each on tables filled by one insert: the insert
\* of a table is made while that table is empty and before the query
\* returns, possibly between its two statements, and a run ends with its
\* query.
QueryInsertTorrent ==
    /\ torrent_files = <<>> /\ qres.kind \notin QueryKinds
    /\ StoreInsertTorrent

QueryInsertLocal ==
    /\ local_files = <<>> /\ qres.kind \notin QueryKinds
    /\ StoreInsertLocal

QueryCountTorrents == qres.kind \notin QueryKinds /\ StoreCountTorrents

QueryCountLocal == qres.kind \notin QueryKinds /\ StoreCountLocal

QueryCountOrphans == qres.kind \notin QueryKinds /\ StoreCountOrphans

QueryTorrents == qres.kind \notin QueryKinds /\ StoreQueryTorrents

QueryLocal == qres.kind \notin QueryKinds /\ StoreQueryLocal

QueryOrphans == qres.kind \notin QueryKinds /\ StoreQueryOrphans

QueryNext ==
    \/ QueryInsertTorrent
    \/ QueryInsertLocal
    \/ QueryCountTorrents
    \/ QueryCountLocal
    \/ QueryCountOrphans
    \/ QueryTorrents
    \/ QueryLocal
    \/ QueryOrphans

(***************************************************************************)
(* C1.                                                                     *)
(***************************************************************************)
\* The set of the elements of a sequence.
Range(seq) == {seq[k] : k \in 1..Len(seq)}

\* The local rows that are orphans, stated on the two sets of keys: the rows
\* whose key is the key of no torrent row.
OrphanRowSet ==
    {l \in Range(local_files) :
        l.relative_path \notin {t.relative_path : t \in Range(torrent_files)}}

\* The positions in local_files of the orphans.
OrphanRows == {k \in 1..Len(local_files) : local_files[k] \in OrphanRowSet}

\* The number of orphans that the query's default order (size descending,
\* rows of one size by ascending id) puts before the orphan at position k.
OrphansBefore(k) ==
    Cardinality({j \in OrphanRows :
                    \/ local_files[j].size > local_files[k].size
                    \/ local_files[j].size = local_files[k].size /\ j < k})

\* An orphan query with no search and no category filter has returned a page
\* that exists or the first one after the last.
OrphanPageRead ==
    /\ qres.kind = "orphan"
    /\ qres.opts.Search = <<>> /\ qres.opts.Category = ""
    /\ qres.opts.Page \in {Int64(n) : n \in 1..3}

\* C1: the orphan query with no filter returns the local rows whose stored
\* key is the key of no torrent row, each of them on one page and once,
\* however many torrent rows share a key: page p of n rows holds the orphans
\* that have (p - 1) * n to p * n - 1 orphans before them, and a page that
\* holds them all has exactly the keys of L \ R.
C1_OrphansAreSetDifference ==
    OrphanPageRead =>
        LET n == IF qres.opts.PerPage < 1 THEN 100 ELSE qres.opts.PerPage
            p == qres.opts.Page[1]
            onPage == {k \in OrphanRows :
                         /\ OrphansBefore(k) >= (p - 1) * n
                         /\ OrphansBefore(k) < p * n}
        IN  /\ Range(qres.res.files) \subseteq {OrphanFile(l) : l \in OrphanRowSet}
            /\ Len(qres.res.files) = Cardinality(onPage)
            /\ qres.res.orderBy = [col |-> "size", dir |-> "desc"] =>
                  Range(qres.res.files) = {OrphanFile(local_files[k]) : k \in onPage}
            /\ (p = 1 /\ n >= Cardinality(OrphanRows)) =>
                  {extractRelativePath(f.FilePath) : f \in Range(qres.res.files)}
                      = {l.relative_path : l \in Range(local_files)}
                            \ {t.relative_path : t \in Range(torrent_files)}

\* Two torrent rows share the key of a local row, another local row is an
\* orphan, and the orphans have been read: the one orphan came back.
C1_Witness ==
    /\ OrphanPageRead
    /\ qres.opts.Page = Int64(1) /\ qres.opts.PerPage = 1
    /\ Len(local_files) = 2
    /\ Len(qres.res.files) = 1
    /\ \E i, j \in 1..Len(torrent_files) :
          /\ i # j
          /\ torrent_files[i].relative_path = torrent_files[j].relative_path
          /\ \E l \in Range(local_files) :
                l.relative_path = torrent_files[i].relative_path

(***************************************************************************)
(* The local scanner: Scanner.Scan, its goroutine and its consumer.        *)
(***************************************************************************)
\* isHidden(name).
isHidden(name) == Len(name) > 0 /\ name[1] = "."

\* One fs.DirEntry of the walk with its path and its depth below the root.
Entry(path, name, isDir, depth, size) ==
    [path |-> path, name |-> name, isDir |-> isDir, depth |-> depth, size |-> size]

\* /mnt with a hidden directory, a hidden file and two media files.
TreeMedia ==
    << Entry(MntPrefix, <<"m", "n", "t">>, TRUE, 0, 0),
       Entry(MntPrefix \o <<"/", ".", "h">>, <<".", "h">>, TRUE, 1, 0),
       Entry(MntPrefix \o <<"/", ".", "h", "/", "z">>, <<"z">>, FALSE, 2, 10),
       Entry(MntPrefix \o <<"/", "m", "o", "v", "i", "e", "s">>,
             <<"m", "o", "v", "i", "e", "s">>, TRUE, 1, 0),
       Entry(MntPrefix \o MarkerMovies \o <<".", "x">>, <<".", "x">>, FALSE, 2, 20),
       Entry(PathMntMoviesA, <<"a">>, FALSE, 2, 100),
       Entry(MntPrefix \o <<"/", "s", "h", "o", "w", "s">>,
             <<"s", "h", "o", "w", "s">>, TRUE, 1, 0),
       Entry(PathMntShowsB, <<"b">>, FALSE, 2, 200) >>

\* /mnt with one file outside every category.
TreeSmall ==
    << Entry(MntPrefix, <<"m", "n", "t">>, TRUE, 0, 0),
       Entry(MntPrefix \o <<"/", "x">>, <<"x">>, TRUE, 1, 0),
       Entry(PathMntXC, <<"c">>, FALSE, 2, 200) >>

\* A root whose own name starts with ".".
TreeHiddenRoot ==
    << Entry(<<"/", ".", "m">>, <<".", "m">>, TRUE, 0, 0),
       Entry(<<"/", ".", "m", "/", "a">>, <<"a">>, FALSE, 1, 100) >>

Trees == {TreeMedia, TreeSmall, TreeHiddenRoot}

\* Whether entry k lies below a directory the callback skips.
BelowSkipped(t, k) ==
    \E j \in 1..(k - 1) :
        /\ t[j].isDir /\ isHidden(t[j].name)
        /\ \A i \in (j + 1)..k : t[i].depth > t[j].depth

\* The entries whose I/O can fail: the root, whatever its name (WalkDir
\* starts with Lstat of the root and gives its error to the callback), a
\* directory that is read (ReadDir) and a file that is stat'ed (d.Info).
\* No I/O is made on a hidden entry other than the root, nor below one.
CanFail(t, k) == k = 1 \/ (~isHidden(t[k].name) /\ ~BelowSkipped(t, k))

\* A faulty SkipDirNext: the walk goes on into the directory.
SkipDirNextDescends(t, k) == k + 1

\* The entry WalkDir visits after entry k when the callback returned
\* filepath.SkipDir for the directory k: the next one that is not below it.
SkipDirNext(t, k) ==
    IF \E j \in (k + 1)..Len(t) : t[j].depth <= t[k].depth
    THEN CHOOSE j \in (k + 1)..Len(t) :
            /\ t[j].depth <= t[k].depth
            /\ \A i \in (k + 1)..(j - 1) : t[i].depth > t[k].depth
    ELSE Len(t) + 1

ScanIdle ==
    /\ spc = "idle"
    /\ tree = <<>>
    /\ ioErrAt = 0
    /\ spos = 0
    /\ pendingFile = NULL
    /\ walkErr = "none"
    /\ received = <<>>
    /\ scanErrs = <<>>
    /\ ctxDone = FALSE
    /\ emittedAtCancel = -1
    /\ cancelAt = 0
    /\ cbErr = "none"

\* Scan(ctx): the channels are made and the goroutine starts the walk of t,
\* in which the I/O of entry e will fail (0: none).
StartScan(t, e) ==
    /\ spc' = "check"
    /\ tree' = t
    /\ ioErrAt' = e
    /\ spos' = 1
    /\ pendingFile' = NULL
    /\ walkErr' = "none"
    /\ received' = <<>>
    /\ scanErrs' = <<>>
    /\ ctxDone' = FALSE
    /\ emittedAtCancel' = -1
    /\ cancelAt' = 0
    /\ cbErr' = "none"

\* The walk is over when every entry was visited; the callback starts with
\* the test of ctx.Done().
ScanCheck ==
    /\ spc = "check"
    /\ IF spos > Len(tree) THEN spc' = "end" /\ walkErr' = "none"
       ELSE IF ctxDone THEN spc' = "end" /\ walkErr' = "canceled"
       ELSE spc' = "visit" /\ walkErr' = walkErr
    /\ UNCHANGED <<tree, ioErrAt, spos, pendingFile, received, scanErrs, ctxDone,
                   emittedAtCancel, cancelAt, cbErr>>
    /\ UNCHANGED <<storeVars, syncVars, fanVars, pathVars, cfgVars, insVars>>

\* Whether WalkDir gives the callback an error for the directory at k: Lstat
\* of the root failed (the callback is called with that error only, before
\* it has seen the name), or ReadDir of a directory the callback did not
\* skip failed (the callback is called again, with the error).
WalkDirFails(t, k, e) ==
    /\ t[k].isDir /\ k = e
    /\ k = 1 \/ ~isHidden(t[k].name)

\* The rest of the callback up to the send: the hidden entries, the
\* directories, d.Info() and the record; and the error WalkDir has for the
\* entry.
ScanVisit ==
    /\ spc = "visit"
    /\ cbErr' = IF WalkDirFails(tree, spos, ioErrAt) THEN "io" ELSE cbErr
    /\ LET d == tree[spos] IN
       IF WalkDirFails(tree, spos, ioErrAt)
       THEN spc' = "walkerr" /\ walkErr' = walkErr /\ spos' = spos /\ pendingFile' = NULL
       ELSE IF isHidden(d.name)
       THEN /\ spc' = "check"
            /\ spos' = IF d.isDir THEN SkipDirNext(tree, spos) ELSE spos + 1
            /\ walkErr' = walkErr /\ pendingFile' = NULL
       ELSE IF d.isDir
       THEN spc' = "check" /\ spos' = spos + 1 /\ walkErr' = walkErr /\ pendingFile' = NULL
       ELSE IF spos = ioErrAt
       THEN spc' = "end" /\ walkErr' = "io" /\ spos' = spos /\ pendingFile' = NULL
       ELSE /\ spc' = "send"
            /\ pendingFile' = LocalFile(d.path, d.name, d.size)
            /\ spos' = spos /\ walkErr' = walkErr
    /\ UNCHANGED <<tree, ioErrAt, received, scanErrs, ctxDone, emittedAtCancel, cancelAt>>
    /\ UNCHANGED <<storeVars, syncVars, fanVars, pathVars, cfgVars, insVars>>

\* A faulty ScanWalkErr: the callback returns nil for the error and the walk
\* goes on after the directory.
ScanWalkErrIgnored ==
    /\ spc = "walkerr"
    /\ spos' = SkipDirNext(tree, spos)
    /\ spc' = "check"
    /\ UNCHANGED <<tree, ioErrAt, pendingFile, walkErr, received, scanErrs, ctxDone,
                   emittedAtCancel, cancelAt, cbErr>>
    /\ UNCHANGED <<storeVars, syncVars, fanVars, pathVars, cfgVars, insVars>>

\* The callback called with the error of WalkDir: the test of ctx.Done()
\* comes first and returns ctx.Err(), then the error is returned.
ScanWalkErr ==
    /\ spc = "walkerr"
    /\ walkErr' = IF ctxDone THEN "canceled" ELSE "io"
    /\ spc' = "end"
    /\ UNCHANGED <<tree, ioErrAt, spos, pendingFile, received, scanErrs, ctxDone,
                   emittedAtCancel, cancelAt, cbErr>>
    /\ UNCHANGED <<storeVars, syncVars, fanVars, pathVars, cfgVars, insVars>>

\* select: case files <- localFile, taken with the consumer's receive.
ScanSendDeliver ==
    /\ spc = "send"
    /\ received' = Append(received, pendingFile)
    /\ pendingFile' = NULL
    /\ spos' = spos + 1
    /\ spc' = "check"
    /\ UNCHANGED <<tree, ioErrAt, walkErr, scanErrs, ctxDone, emittedAtCancel, cancelAt, cbErr>>
    /\ UNCHANGED <<storeVars, syncVars, fanVars, pathVars, cfgVars, insVars>>

\* select: case <-ctx.Done(), which returns ctx.Err().
ScanSendCancelled ==
    /\ spc = "send"
    /\ ctxDone
    /\ pendingFile' = NULL
    /\ walkErr' = "canceled"
    /\ spc' = "end"
    /\ UNCHANGED <<tree, ioErrAt, spos, received, scanErrs, ctxDone, emittedAtCancel,
                   cancelAt, cbErr>>
    /\ UNCHANGED <<storeVars, syncVars, fanVars, pathVars, cfgVars, insVars>>

\* ScanEnd taking a cancelled walk for a finished one: the streams are
\* closed and no error is sent.
ScanEndDropsError ==
    /\ spc = "end"
    /\ scanErrs' = IF walkErr = "io" /\ Len(scanErrs) < 1
                   THEN Append(scanErrs, walkErr) ELSE scanErrs
    /\ spc' = "closed"
    /\ UNCHANGED <<tree, ioErrAt, spos, pendingFile, walkErr, received, ctxDone,
                   emittedAtCancel, cancelAt, cbErr>>
    /\ UNCHANGED <<storeVars, syncVars, fanVars, pathVars, cfgVars, insVars>>

\* After WalkDir: the error, if any, goes to errs without blocking, then the
\* deferred closes run.
ScanEnd ==
    /\ spc = "end"
    /\ scanErrs' = IF walkErr # "none" /\ Len(scanErrs) < 1
                   THEN Append(scanErrs, walkErr) ELSE scanErrs
    /\ spc' = "closed"
    /\ UNCHANGED <<tree, ioErrAt, spos, pendingFile, walkErr, received, ctxDone,
                   emittedAtCancel, cancelAt, cbErr>>
    /\ UNCHANGED <<storeVars, syncVars, fanVars, pathVars, cfgVars, insVars>>

\* The caller cancels the context while the scan runs.
ScanCancel ==
    /\ spc \in {"check", "visit", "walkerr", "send"}
    /\ ~ctxDone
    /\ ctxDone' = TRUE
    /\ emittedAtCancel' = Len(received)
    /\ cancelAt' = spos
    /\ UNCHANGED <<spc, tree, ioErrAt, spos, pendingFile, walkErr, received, scanErrs,
                   cbErr>>
    /\ UNCHANGED <<storeVars, syncVars, fanVars, pathVars, cfgVars, insVars>>

\* A caller starts a scan of one of the trees.
ScanStart ==
    /\ spc = "idle"
    /\ \E t \in Trees : \E e \in {0} \cup {k \in 1..Len(t) : CanFail(t, k)} :
          StartScan(t, e)
    /\ UNCHANGED <<storeVars, syncVars, fanVars, pathVars, cfgVars, insVars>>

ScanNext ==
    \/ ScanStart
    \/ ScanCheck
    \/ ScanVisit
    \/ ScanWalkErr
    \/ ScanSendDeliver
    \/ ScanSendCancelled
    \/ ScanEnd
    \/ ScanCancel

(***************************************************************************)
(* The sync pass: runSync of the command line.                             *)
(***************************************************************************)
\* The remote side: the files Client.GetTorrentFiles returns for a hash.
RemoteFilesOf(hash) ==
    IF hash = "h1" THEN <<TorrentFile("h1", PathDataMoviesA, <<"a">>, 100)>>
    ELSE <<TorrentFile("h2", PathDlMoviesA, <<"a">>, 100),
           TorrentFile("h2", PathXC, <<"c">>, 200)>>

\* The lists Client.GetTorrents can return.
RemoteLists == {<<>>, <<"h1">>, <<"h1", "h2">>}

SyncIdle ==
    /\ pc = "idle"
    /\ pass = 0
    /\ torrents = <<>>
    /\ fetchIdx = 0
    /\ allFiles = <<>>
    /\ warnings = <<>>
    /\ fatalAt = ""
    /\ prevTorrent = <<>>
    /\ prevLocal = <<>>

\* log.Fatalf after the call named by step failed.
Fatal(step) == pc' = "fatal" /\ fatalAt' = step

\* A faulty SyncLogin: a failed login ends the pass.
SyncLoginFatal ==
    /\ pc = "login"
    /\ \E ok \in BOOLEAN :
          IF ok THEN pc' = "clearTorrent" /\ fatalAt' = fatalAt
          ELSE Fatal("login")
    /\ UNCHANGED <<pass, torrents, fetchIdx, allFiles, warnings, prevTorrent, prevLocal>>
    /\ UNCHANGED <<storeVars, scanVars>>
    /\ UNCHANGED <<fanVars, pathVars, cfgVars, insVars>>

\* qbtClient.Login: a failure is logged and the remote side is skipped.
SyncLogin ==
    /\ pc = "login"
    /\ \E ok \in BOOLEAN :
          IF ok THEN pc' = "clearTorrent" /\ warnings' = warnings
          ELSE pc' = "clearLocal" /\ warnings' = Append(warnings, "login")
    /\ UNCHANGED <<pass, torrents, fetchIdx, allFiles, fatalAt, prevTorrent, prevLocal>>
    /\ UNCHANGED <<storeVars, scanVars>>
    /\ UNCHANGED <<fanVars, pathVars, cfgVars, insVars>>

\* store.ClearTorrentFiles.
SyncClearTorrent ==
    /\ pc = "clearTorrent"
    /\ \E fails \in BOOLEAN :
          /\ torrent_files' = ClearTable(torrent_files, fails).table
          /\ IF ClearTable(torrent_files, fails).err THEN Fatal("clearTorrent")
             ELSE pc' = "getTorrents" /\ fatalAt' = fatalAt
    /\ UNCHANGED <<pass, torrents, fetchIdx, allFiles, warnings, prevTorrent, prevLocal>>
    /\ UNCHANGED <<local_files, batchSize, tables, qcall, qres, scanVars>>
    /\ UNCHANGED <<fanVars, pathVars, cfgVars, insVars>>

\* qbtClient.GetTorrents: a failure is logged and the remote side is left.
SyncGetTorrents ==
    /\ pc = "getTorrents"
    /\ \E ok \in BOOLEAN, list \in RemoteLists :
          IF ok THEN /\ pc' = "fetch" /\ torrents' = list /\ fetchIdx' = 1
                     /\ warnings' = warnings
          ELSE /\ pc' = "clearLocal" /\ torrents' = torrents /\ fetchIdx' = fetchIdx
               /\ warnings' = Append(warnings, "list")
    /\ UNCHANGED <<pass, allFiles, fatalAt, prevTorrent, prevLocal>>
    /\ UNCHANGED <<storeVars, scanVars>>
    /\ UNCHANGED <<fanVars, pathVars, cfgVars, insVars>>

\* One turn of the loop over torrents: GetTorrentFiles, continue on an error.
SyncFetch ==
    /\ pc = "fetch"
    /\ fetchIdx <= Len(torrents)
    /\ \E ok \in BOOLEAN :
          allFiles' = IF ok THEN allFiles \o RemoteFilesOf(torrents[fetchIdx]) ELSE allFiles
    /\ fetchIdx' = fetchIdx + 1
    /\ UNCHANGED <<pc, pass, torrents, warnings, fatalAt, prevTorrent, prevLocal>>
    /\ UNCHANGED <<storeVars, scanVars>>
    /\ UNCHANGED <<fanVars, pathVars, cfgVars, insVars>>

\* After the loop: store.InsertTorrentFiles(allFiles).
SyncInsertTorrent ==
    /\ pc = "fetch"
    /\ fetchIdx > Len(torrents)
    /\ \E failAt \in 0..1 :
          /\ torrent_files' = InsertTorrentFiles(torrent_files, allFiles, batchSize, failAt).table
          /\ IF InsertTorrentFiles(torrent_files, allFiles, batchSize, failAt).err
             THEN Fatal("insertTorrent")
             ELSE pc' = "clearLocal" /\ fatalAt' = fatalAt
    /\ UNCHANGED <<pass, torrents, fetchIdx, allFiles, warnings, prevTorrent, prevLocal>>
    /\ UNCHANGED <<local_files, batchSize, tables, qcall, qres, scanVars>>
    /\ UNCHANGED <<fanVars, pathVars, cfgVars, insVars>>

\* store.ClearLocalFiles, then scan.Scan(ctx) on one of the trees.
SyncClearLocal ==
    /\ pc = "clearLocal"
    /\ \E fails \in BOOLEAN :
          /\ local_files' = ClearTable(local_files, fails).table
          /\ IF ClearTable(local_files, fails).err
             THEN Fatal("clearLocal") /\ UNCHANGED scanVars
             ELSE /\ pc' = "scan" /\ fatalAt' = fatalAt
                  /\ \E t \in Trees : \E e \in {0} \cup {k \in 1..Len(t) : CanFail(t, k)} :
                        StartScan(t, e)
    /\ UNCHANGED <<pass, torrents, fetchIdx, allFiles, warnings, prevTorrent, prevLocal>>
    /\ UNCHANGED <<torrent_files, batchSize, tables, qcall, qres>>
    /\ UNCHANGED <<fanVars, pathVars, cfgVars, insVars>>

\* The range over filesChan has ended; err := <-errsChan is logged if not nil.
SyncScanDone ==
    /\ pc = "scan"
    /\ spc = "closed"
    /\ warnings' = IF scanErrs # <<>> THEN Append(warnings, "scan") ELSE warnings
    /\ pc' = "insertLocal"
    /\ UNCHANGED <<pass, torrents, fetchIdx, allFiles, fatalAt, prevTorrent, prevLocal>>
    /\ UNCHANGED <<storeVars, scanVars>>
    /\ UNCHANGED <<fanVars, pathVars, cfgVars, insVars>>

\* store.InsertLocalFiles(localFiles) with the records received.
SyncInsertLocal ==
    /\ pc = "insertLocal"
    /\ \E failAt \in 0..1 :
          /\ local_files' = InsertLocalFiles(local_files, received, batchSize, failAt).table
          /\ IF InsertLocalFiles(local_files, received, batchSize, failAt).err
             THEN Fatal("insertLocal")
             ELSE pc' = "done" /\ fatalAt' = fatalAt
    /\ UNCHANGED <<pass, torrents, fetchIdx, allFiles, warnings, prevTorrent, prevLocal>>
    /\ UNCHANGED <<torrent_files, batchSize, tables, qcall, qres, scanVars>>
    /\ UNCHANGED <<fanVars, pathVars, cfgVars, insVars>>

\* The command is run again on the same database.
SyncNextPass ==
    /\ pc \in {"done", "fatal"}
    /\ pass < MaxPasses
    /\ pass' = pass + 1
    /\ pc' = "login"
    /\ torrents' = <<>> /\ fetchIdx' = 0 /\ allFiles' = <<>>
    /\ warnings' = <<>> /\ fatalAt' = ""
    /\ prevTorrent' = torrent_files
    /\ prevLocal' = local_files
    /\ spc' = "idle" /\ tree' = <<>> /\ ioErrAt' = 0 /\ spos' = 0 /\ pendingFile' = NULL
    /\ walkErr' = "none" /\ received' = <<>> /\ scanErrs' = <<>>
    /\ UNCHANGED <<ctxDone, emittedAtCancel, cancelAt, cbErr>>
    /\ UNCHANGED storeVars
    /\ UNCHANGED <<fanVars, pathVars, cfgVars, insVars>>

SyncInit ==
    /\ StoreInit
    /\ ScanIdle
    /\ pc = "login"
    /\ pass = 1
    /\ torrents = <<>>
    /\ fetchIdx = 0
    /\ allFiles = <<>>
    /\ warnings = <<>>
    /\ fatalAt = ""
    /\ prevTorrent = <<>>
    /\ prevLocal = <<>>

\* The scanner runs under runSync with context.Background(), which is never
\* cancelled: its goroutine takes every step but the ones of a cancellation.
SyncNext ==
    \/ SyncLogin
    \/ SyncClearTorrent
    \/ SyncGetTorrents
    \/ SyncFetch
    \/ SyncInsertTorrent
    \/ SyncClearLocal
    \/ ScanCheck
    \/ ScanVisit
    \/ ScanWalkErr
    \/ ScanSendDeliver
    \/ ScanEnd
    \/ SyncScanDone
    \/ SyncInsertLocal
    \/ SyncNextPass

(***************************************************************************)
(* The remote fan-out: Client.SyncAll, its goroutine, the workers of the   *)
(* errgroup and the consumer of the two channels.                          *)
(***************************************************************************)
\* maxWorkers = 10 when NewClient is given a value <= 0.
DefaultWorkers == 10

\* NewClient: the worker ceiling kept in the client.
NewClientMaxWorkers(m) == IF m <= 0 THEN DefaultWorkers ELSE m

\* The ceilings given to NewClient.
ConfiguredWorkers == {0, 1, 2}

\* The number of files of torrent t on the remote side: two, one, none, one, ...
NumFiles(t) == IF t % 3 = 1 THEN 2 ELSE IF t % 3 = 2 THEN 1 ELSE 0

\* The files GetTorrentFiles returns for torrent t, named by torrent and rank.
FilesOfTorrent(t) == [k \in 1..NumFiles(t) |-> [torrent |-> t, file |-> k]]

Workers == 1..MaxTorrents

\* gCtx of errgroup.WithContext(ctx): done when ctx is, or when a worker has
\* returned an error.
gCtxDone == fctxDone \/ gErr # "none"

\* The goroutines of the group that have not returned: each holds one of
\* the maxWorkers tokens of g.SetLimit.
Active == {w \in Workers : wpc[w] \in {"start", "fetch", "lock", "send"}}

\* The calls of GetTorrentFiles in flight.
InFlight == {w \in Workers : wpc[w] = "fetch"}

\* select { case errs <- e: default: } on the buffered channel.
TrySend(buf, e) == IF Len(buf) < 1 THEN Append(buf, e) ELSE buf

FanIdle ==
    /\ fpc = "idle"
    /\ cfgWorkers = 0
    /\ maxWorkers = 0
    /\ nTorrents = 0
    /\ failing = {}
    /\ wpc = [w \in Workers |-> "none"]
    /\ widx = [w \in Workers |-> 0]
    /\ mu = 0
    /\ nextT = 0
    /\ gErr = "none"
    /\ fctxDone = FALSE
    /\ cancelPhase = ""
    /\ fileStream = <<>>
    /\ errBuf = <<>>
    /\ errStream = <<>>

\* NewClient(host, user, password, m) and SyncAll(ctx): the channels are
\* made and the goroutine starts.
FanInit ==
    /\ fpc = "list"
    /\ cfgWorkers \in ConfiguredWorkers
    /\ maxWorkers = NewClientMaxWorkers(cfgWorkers)
    /\ nTorrents = 0
    /\ failing = {}
    /\ wpc = [w \in Workers |-> "none"]
    /\ widx = [w \in Workers |-> 0]
    /\ mu = 0
    /\ nextT = 0
    /\ gErr = "none"
    /\ fctxDone = FALSE
    /\ cancelPhase = ""
    /\ fileStream = <<>>
    /\ errBuf = <<>>
    /\ errStream = <<>>

\* c.GetTorrents(ctx) succeeds with n torrents, of which those of bad will
\* fail to give their files.
FanListOk ==
    /\ fpc = "list"
    /\ \E n \in 0..MaxTorrents : \E bad \in SUBSET (1..n) :
          /\ nTorrents' = n
          /\ failing' = bad
    /\ nextT' = 1
    /\ fpc' = "spawn"
    /\ UNCHANGED <<cfgWorkers, maxWorkers, wpc, widx, mu, gErr, fctxDone, cancelPhase,
                   fileStream, errBuf, errStream>>
    /\ UNCHANGED <<storeVars, scanVars, syncVars, pathVars, cfgVars, insVars>>

\* c.GetTorrents(ctx) fails: select between the send of the error and
\* ctx.Done(), then the deferred closes.  Go picks among the ready cases.
FanListFail ==
    /\ fpc = "list"
    /\ \E cause \in {"remote"} \cup (IF fctxDone THEN {"canceled"} ELSE {}) :
       \E choice \in {"send"} \cup (IF fctxDone THEN {"done"} ELSE {}) :
          errBuf' = IF choice = "send"
                    THEN Append(errBuf, [kind |-> "list", torrent |-> 0, cause |-> cause])
                    ELSE errBuf
    /\ fpc' = "closed"
    /\ UNCHANGED <<cfgWorkers, maxWorkers, nTorrents, failing, wpc, widx, mu, nextT, gErr,
                   fctxDone, cancelPhase, fileStream, errStream>>
    /\ UNCHANGED <<storeVars, scanVars, syncVars, pathVars, cfgVars, insVars>>

\* A faulty FanGo: g.SetLimit is lost, a goroutine starts at once.
FanGoNoLimit ==
    /\ fpc = "spawn"
    /\ nextT <= nTorrents
    /\ wpc' = [wpc EXCEPT ![nextT] = "start"]
    /\ nextT' = nextT + 1
    /\ UNCHANGED <<fpc, cfgWorkers, maxWorkers, nTorrents, failing, widx, mu, gErr, fctxDone,
                   cancelPhase, fileStream, errBuf, errStream>>
    /\ UNCHANGED <<storeVars, scanVars, syncVars, pathVars, cfgVars, insVars>>

\* g.Go(...) for the next torrent: blocks while maxWorkers goroutines of the
\* group are running.
FanGo ==
    /\ fpc = "spawn"
    /\ nextT <= nTorrents
    /\ Cardinality(Active) < maxWorkers
    /\ wpc' = [wpc EXCEPT ![nextT] = "start"]
    /\ nextT' = nextT + 1
    /\ UNCHANGED <<fpc, cfgWorkers, maxWorkers, nTorrents, failing, widx, mu, gErr, fctxDone,
                   cancelPhase, fileStream, errBuf, errStream>>
    /\ UNCHANGED <<storeVars, scanVars, syncVars, pathVars, cfgVars, insVars>>

\* A faulty WorkerStart: the test of gCtx.Done() is lost, the worker goes
\* straight to the fetch.
WorkerStartNoCtxTest(w) ==
    /\ wpc[w] = "start"
    /\ wpc' = [wpc EXCEPT ![w] = "fetch"]
    /\ UNCHANGED <<fpc, cfgWorkers, maxWorkers, nTorrents, failing, widx, mu, nextT, gErr,
                   fctxDone, cancelPhase, fileStream, errBuf, errStream>>
    /\ UNCHANGED <<storeVars, scanVars, syncVars, pathVars, cfgVars, insVars>>

\* The worker's first select: return gCtx.Err() when gCtx is done.
WorkerStart(w) ==
    /\ wpc[w] = "start"
    /\ IF gCtxDone
       THEN /\ wpc' = [wpc EXCEPT ![w] = "done"]
            /\ gErr' = IF gErr = "none" THEN "canceled" ELSE gErr
       ELSE /\ wpc' = [wpc EXCEPT ![w] = "fetch"]
            /\ gErr' = gErr
    /\ UNCHANGED <<fpc, cfgWorkers, maxWorkers, nTorrents, failing, widx, mu, nextT, fctxDone,
                   cancelPhase, fileStream, errBuf, errStream>>
    /\ UNCHANGED <<storeVars, scanVars, syncVars, pathVars, cfgVars, insVars>>

\* The outcomes of c.GetTorrentFiles(gCtx, hash) for torrent w.
FetchOutcomes(w) ==
    (IF w \in failing THEN {"remote"} ELSE {"ok"})
        \cup (IF gCtxDone THEN {"canceled"} ELSE {})

\* A faulty WorkerFetch: the worker returns the error of the fetch to
\* the errgroup instead of nil.
WorkerFetchReturnsErr(w) ==
    /\ wpc[w] = "fetch"
    /\ \E out \in FetchOutcomes(w) :
          IF out = "ok"
          THEN /\ wpc' = [wpc EXCEPT ![w] = "lock"]
               /\ errBuf' = errBuf /\ gErr' = gErr
          ELSE /\ wpc' = [wpc EXCEPT ![w] = "done"]
               /\ errBuf' = TrySend(errBuf, [kind |-> "fetch", torrent |-> w, cause |-> out])
               /\ gErr' = IF gErr = "none" THEN out ELSE gErr
    /\ UNCHANGED <<fpc, cfgWorkers, maxWorkers, nTorrents, failing, widx, mu, nextT,
                   fctxDone, cancelPhase, fileStream, errStream>>
    /\ UNCHANGED <<storeVars, scanVars, syncVars, pathVars, cfgVars, insVars>>

\* c.GetTorrentFiles returns: on an error the worker tries to send it to errs
\* and returns nil; otherwise it goes on to the mutex.
WorkerFetch(w) ==
    /\ wpc[w] = "fetch"
    /\ \E out \in FetchOutcomes(w) :
          IF out = "ok"
          THEN /\ wpc' = [wpc EXCEPT ![w] = "lock"]
               /\ errBuf' = errBuf
          ELSE /\ wpc' = [wpc EXCEPT ![w] = "done"]
               /\ errBuf' = TrySend(errBuf, [kind |-> "fetch", torrent |-> w, cause |-> out])
    /\ UNCHANGED <<fpc, cfgWorkers, maxWorkers, nTorrents, failing, widx, mu, nextT, gErr,
                   fctxDone, cancelPhase, fileStream, errStream>>
    /\ UNCHANGED <<storeVars, scanVars, syncVars, pathVars, cfgVars, insVars>>

\* mu.Lock().
WorkerLock(w) ==
    /\ wpc[w] = "lock"
    /\ mu = 0
    /\ mu' = w
    /\ wpc' = [wpc EXCEPT ![w] = "send"]
    /\ widx' = [widx EXCEPT ![w] = 1]
    /\ UNCHANGED <<fpc, cfgWorkers, maxWorkers, nTorrents, failing, nextT, gErr, fctxDone,
                   cancelPhase, fileStream, errBuf, errStream>>
    /\ UNCHANGED <<storeVars, scanVars, syncVars, pathVars, cfgVars, insVars>>

\* select: case files <- file, taken with the consumer's receive.
WorkerSendDeliver(w) ==
    /\ wpc[w] = "send"
    /\ widx[w] <= NumFiles(w)
    /\ fileStream' = Append(fileStream, FilesOfTorrent(w)[widx[w]])
    /\ widx' = [widx EXCEPT ![w] = widx[w] + 1]
    /\ UNCHANGED <<fpc, cfgWorkers, maxWorkers, nTorrents, failing, wpc, mu, nextT, gErr,
                   fctxDone, cancelPhase, errBuf, errStream>>
    /\ UNCHANGED <<storeVars, scanVars, syncVars, pathVars, cfgVars, insVars>>

\* select: case <-gCtx.Done(): return gCtx.Err(), and the deferred Unlock.
WorkerSendCancelled(w) ==
    /\ wpc[w] = "send"
    /\ widx[w] <= NumFiles(w)
    /\ gCtxDone
    /\ gErr' = IF gErr = "none" THEN "canceled" ELSE gErr
    /\ mu' = 0
    /\ wpc' = [wpc EXCEPT ![w] = "done"]
    /\ UNCHANGED <<fpc, cfgWorkers, maxWorkers, nTorrents, failing, widx, nextT, fctxDone,
                   cancelPhase, fileStream, errBuf, errStream>>
    /\ UNCHANGED <<storeVars, scanVars, syncVars, pathVars, cfgVars, insVars>>

\* A faulty WorkerSendDone: the deferred Unlock is lost.
WorkerSendDoneKeepsLock(w) ==
    /\ wpc[w] = "send"
    /\ widx[w] > NumFiles(w)
    /\ wpc' = [wpc EXCEPT ![w] = "done"]
    /\ UNCHANGED <<fpc, cfgWorkers, maxWorkers, nTorrents, failing, widx, mu, nextT, gErr,
                   fctxDone, cancelPhase, fileStream, errBuf, errStream>>
    /\ UNCHANGED <<storeVars, scanVars, syncVars, pathVars, cfgVars, insVars>>

\* The loop over the files is over: return nil, and the deferred Unlock.
WorkerSendDone(w) ==
    /\ wpc[w] = "send"
    /\ widx[w] > NumFiles(w)
    /\ mu' = 0
    /\ wpc' = [wpc EXCEPT ![w] = "done"]
    /\ UNCHANGED <<fpc, cfgWorkers, maxWorkers, nTorrents, failing, widx, nextT, gErr,
                   fctxDone, cancelPhase, fileStream, errBuf, errStream>>
    /\ UNCHANGED <<storeVars, scanVars, syncVars, pathVars, cfgVars, insVars>>

\* The cases of the select after g.Wait() that are ready: the send when the
\* buffer has room, ctx.Done() when ctx is cancelled, default when neither.
WaitChoices ==
    LET ready == (IF Len(errBuf) < 1 THEN {"send"} ELSE {})
                    \cup (IF fctxDone THEN {"done"} ELSE {})
    IN  IF ready = {} THEN {"default"} ELSE ready

\* g.Wait() returns once every goroutine has; its error, if any, goes
\* through the select; then the deferred closes.
FanWait ==
    /\ fpc = "spawn"
    /\ nextT > nTorrents
    /\ Active = {}
    /\ \E choice \in WaitChoices :
          errBuf' = IF gErr # "none" /\ choice = "send"
                    THEN Append(errBuf, [kind |-> "sync", torrent |-> 0, cause |-> gErr])
                    ELSE errBuf
    /\ fpc' = "closed"
    /\ UNCHANGED <<cfgWorkers, maxWorkers, nTorrents, failing, wpc, widx, mu, nextT, gErr,
                   fctxDone, cancelPhase, fileStream, errStream>>
    /\ UNCHANGED <<storeVars, scanVars, syncVars, pathVars, cfgVars, insVars>>

\* The consumer receives an error from errs.
ConsumerRecvErr ==
    /\ fpc # "idle"
    /\ errBuf # <<>>
    /\ errStream' = Append(errStream, Head(errBuf))
    /\ errBuf' = Tail(errBuf)
    /\ UNCHANGED <<fpc, cfgWorkers, maxWorkers, nTorrents, failing, wpc, widx, mu, nextT,
                   gErr, fctxDone, cancelPhase, fileStream>>
    /\ UNCHANGED <<storeVars, scanVars, syncVars, pathVars, cfgVars, insVars>>

\* The caller cancels ctx while SyncAll runs.
FanCancel ==
    /\ fpc \in {"list", "spawn"}
    /\ ~fctxDone
    /\ fctxDone' = TRUE
    /\ cancelPhase' = fpc
    /\ UNCHANGED <<fpc, cfgWorkers, maxWorkers, nTorrents, failing, wpc, widx, mu, nextT,
                   gErr, fileStream, errBuf, errStream>>
    /\ UNCHANGED <<storeVars, scanVars, syncVars, pathVars, cfgVars, insVars>>

FanNext ==
    \/ FanListOk
    \/ FanListFail
    \/ FanGo
    \/ \E w \in Workers :
          \/ WorkerStart(w)
          \/ WorkerFetch(w)
          \/ WorkerLock(w)
          \/ WorkerSendDeliver(w)
          \/ WorkerSendCancelled(w)
          \/ WorkerSendDone(w)
    \/ FanWait
    \/ ConsumerRecvErr
    \/ FanCancel

(***************************************************************************)
(* The path functions on their own: normalizeLocalPath and                 *)
(* extractRelativePath as InsertLocalFiles chains them, extractRelativePath *)
(* as InsertTorrentFiles calls it, and Scanner.categorize.                 *)
(***************************************************************************)
\* The directory and file names the paths are made of.
SegMnt == <<"m", "n", "t">>
SegMovies == <<"m", "o", "v", "i", "e", "s">>
SegShows == <<"s", "h", "o", "w", "s">>
Seg4k == <<"4", "k">>
SegA == <<"a">>
PathSegs == {SegMnt, SegMovies, SegShows, Seg4k, SegA}

RECURSIVE JoinPath(_)
\* The names of segs, each after a "/".
JoinPath(segs) ==
    IF segs = <<>> THEN <<>>
    ELSE <<"/">> \o Head(segs) \o JoinPath(Tail(segs))

\* The absolute paths of 1 to MaxSegs names, and the same paths without
\* their leading "/".
InputPaths ==
    LET abs == {JoinPath(segs) :
                    segs \in UNION {[1..n -> PathSegs] : n \in 1..MaxSegs}}
    IN  abs \cup {Tail(q) : q \in abs}

\* The key InsertLocalFiles stores in relative_path for a file path.
LocalKey(path) == extractRelativePath(normalizeLocalPath(path))

NoCall == [op |-> "none"]

PathIdle ==
    /\ inPath = <<>>
    /\ pathOut = NoCall

PathInit ==
    /\ inPath \in InputPaths
    /\ pathOut = NoCall

\* InsertLocalFiles computes the key of the path.
PathLocalKey ==
    /\ pathOut.op = "none"
    /\ pathOut' = [op |-> "key", val |-> LocalKey(inPath)]
    /\ UNCHANGED inPath
    /\ UNCHANGED <<storeVars, scanVars, syncVars, fanVars, cfgVars, insVars>>

\* InsertLocalFiles computes the key of a path that is itself a key.
PathLocalKeyAgain ==
    /\ pathOut.op = "key"
    /\ pathOut' = [op |-> "keykey", val |-> LocalKey(pathOut.val), of |-> pathOut.val]
    /\ UNCHANGED inPath
    /\ UNCHANGED <<storeVars, scanVars, syncVars, fanVars, cfgVars, insVars>>

\* extractRelativePath(inPath).
PathExtract ==
    /\ pathOut.op = "none"
    /\ pathOut' = [op |-> "extract", val |-> extractRelativePath(inPath)]
    /\ UNCHANGED inPath
    /\ UNCHANGED <<storeVars, scanVars, syncVars, fanVars, cfgVars, insVars>>

\* Scanner.categorize(inPath).
PathCategorize ==
    /\ pathOut.op = "none"
    /\ pathOut' = [op |-> "categorize", val |-> categorize(inPath)]
    /\ UNCHANGED inPath
    /\ UNCHANGED <<storeVars, scanVars, syncVars, fanVars, cfgVars, insVars>>

PathNext ==
    \/ PathLocalKey
    \/ PathLocalKeyAgain
    \/ PathExtract
    \/ PathCategorize

(***************************************************************************)
(* The configuration (internal/config) and the start of runSync.           *)
(***************************************************************************)
DefaultQBittorrentMaxWorkers == 10
DefaultSQLiteBatchSize == 1000

\* The fields of Config the model keeps.
Config(workers, batch) == [QBittorrentMaxWorkers |-> workers, SQLiteBatchSize |-> batch]

\* What the file gives for a field: 0 for a field that is absent or zero
\* (and for a file that does not exist), else the number.
FileValues == {0, -1, 3}

\* What the environment gives for a variable: not set, text that is no
\* number, or a number.
Unset == [set |-> FALSE, number |-> FALSE, v |-> 0]
NotANumber == [set |-> TRUE, number |-> FALSE, v |-> 0]
Number(n) == [set |-> TRUE, number |-> TRUE, v |-> n]
EnvValues == {Unset, NotANumber, Number(-1), Number(0), Number(2)}

\* loadFromFile: only the non-zero values of the file override.
loadFromFile(c, file) ==
    Config(IF file.QBittorrentMaxWorkers # 0
           THEN file.QBittorrentMaxWorkers ELSE c.QBittorrentMaxWorkers,
           IF file.SQLiteBatchSize # 0 THEN file.SQLiteBatchSize ELSE c.SQLiteBatchSize)

\* loadFromEnv: a variable that is set and that strconv.Atoi parses
\* overrides.
loadFromEnv(c, env) ==
    LET over(e, old) == IF e.set /\ e.number THEN e.v ELSE old
    IN  Config(over(env.QBittorrentMaxWorkers, c.QBittorrentMaxWorkers),
               over(env.SQLiteBatchSize, c.SQLiteBatchSize))

\* A faulty Validate: the test of the worker count is lost.
ValidateNoWorkerTest(c) == c.SQLiteBatchSize < 1

\* Config.Validate on a configuration whose ports and paths are valid:
\* whether it returns an error.
Validate(c) == c.QBittorrentMaxWorkers < 1 \/ c.SQLiteBatchSize < 1

CfgIdle ==
    /\ cfgFile = Config(0, 0)
    /\ cfgEnv = Config(Unset, Unset)
    /\ cfg = Config(0, 0)
    /\ cpc = "idle"
    /\ comps = <<>>

\* The command starts with some configuration file and environment.
CfgInit ==
    /\ cfgFile \in {Config(w, b) : w \in FileValues, b \in FileValues}
    /\ cfgEnv \in {Config(w, b) : w \in EnvValues, b \in EnvValues}
    /\ cfg = Config(0, 0)
    /\ cpc = "load"
    /\ comps = <<>>

\* config.Load: the defaults, the file, the environment, then Validate;
\* runSync ends with log.Fatalf on an error.
CfgLoad ==
    /\ cpc = "load"
    /\ LET c == loadFromEnv(loadFromFile(Config(DefaultQBittorrentMaxWorkers,
                                                DefaultSQLiteBatchSize), cfgFile),
                            cfgEnv)
       IN  /\ cfg' = c
           /\ cpc' = IF Validate(c) THEN "fatal" ELSE "mkdir"
    /\ UNCHANGED <<cfgFile, cfgEnv, comps>>
    /\ UNCHANGED <<storeVars, scanVars, syncVars, fanVars, pathVars, insVars>>

\* os.MkdirAll of the directory of the database.
CfgMkdir ==
    /\ cpc = "mkdir"
    /\ comps' = Append(comps, [io |-> "mkdir"])
    /\ cpc' = "store"
    /\ UNCHANGED <<cfgFile, cfgEnv, cfg>>
    /\ UNCHANGED <<storeVars, scanVars, syncVars, fanVars, pathVars, insVars>>

\* storage.NewStorage(cfg.SQLitePath, cfg.SQLiteBatchSize) and Initialize.
CfgNewStorage ==
    /\ cpc = "store"
    /\ comps' = Append(comps, [io |-> "store", batchSize |-> cfg.SQLiteBatchSize])
    /\ cpc' = "client"
    /\ UNCHANGED <<cfgFile, cfgEnv, cfg>>
    /\ UNCHANGED <<storeVars, scanVars, syncVars, fanVars, pathVars, insVars>>

\* qbittorrent.NewClient(..., cfg.QBittorrentMaxWorkers), which opens no
\* connection.
CfgNewClient ==
    /\ cpc = "client"
    /\ comps' = Append(comps, [io |-> "client",
                               maxWorkers |-> NewClientMaxWorkers(cfg.QBittorrentMaxWorkers)])
    /\ cpc' = "login"
    /\ UNCHANGED <<cfgFile, cfgEnv, cfg>>
    /\ UNCHANGED <<storeVars, scanVars, syncVars, fanVars, pathVars, insVars>>

\* qbtClient.Login and the remote part of the pass.
CfgLogin ==
    /\ cpc = "login"
    /\ comps' = Append(comps, [io |-> "remote"])
    /\ cpc' = "scan"
    /\ UNCHANGED <<cfgFile, cfgEnv, cfg>>
    /\ UNCHANGED <<storeVars, scanVars, syncVars, fanVars, pathVars, insVars>>

\* scanner.NewScanner(cfg.LocalPath) and Scan.
CfgScan ==
    /\ cpc = "scan"
    /\ comps' = Append(comps, [io |-> "scan"])
    /\ cpc' = "done"
    /\ UNCHANGED <<cfgFile, cfgEnv, cfg>>
    /\ UNCHANGED <<storeVars, scanVars, syncVars, fanVars, pathVars, insVars>>

CfgNext ==
    \/ CfgLoad
    \/ CfgMkdir
    \/ CfgNewStorage
    \/ CfgNewClient
    \/ CfgLogin
    \/ CfgScan

(***************************************************************************)
(* The export of the orphans (web server).                                 *)
(***************************************************************************)
\* The largest perPage normalizeQueryOptions lets through.
MaxPerPage == 1000

\* PerPage of the options handleOrphanExport builds.
ExportPerPage == 1000000

DigitChars == <<"0", "1", "2", "3", "4", "5", "6", "7", "8", "9">>

RECURSIVE Digits(_)
\* The decimal digits of n >= 0.
Digits(n) ==
    IF n < 10 THEN <<DigitChars[n + 1]>>
    ELSE Digits(n \div 10) \o <<DigitChars[(n % 10) + 1]>>

\* The k-th file of a store: /mnt/x/<k>.
ExportFile(k) == LocalFile(MntPrefix \o <<"/", "x", "/">> \o Digits(k), Digits(k), 1)

\* local_files after the insert of the files 1 to n into the empty table.
ExportTable(n) == [k \in 1..n |-> LocalRow(ExportFile(k))]

\* The numbers of local rows of the stores: small, and around MaxPerPage.
ExportCounts == (0..MaxSmallStore) \cup {MaxPerPage - 1, MaxPerPage, MaxPerPage + 1}

\* A store with some local rows and with no torrent row or the torrent row
\* of the first file.
ExportInit ==
    /\ local_files \in {ExportTable(n) : n \in ExportCounts}
    /\ torrent_files \in
          {<<>>, <<TorrentRow(TorrentFile("h1", <<"/", "x", "/", "1">>, <<"1">>, 1))>>}
    /\ batchSize = 1
    /\ tables = createdTables
    /\ qres = NoQuery
    /\ qcall = NoPending

\* The lines written for the files: f.FilePath of each, in their order.
ExportLines(files) == [k \in 1..Len(files) |-> files[k].FilePath]

\* Server.handleOrphanExport up to the SELECT COUNT(*) of GetOrphanFiles,
\* called with Page 1 and PerPage 1000000; the handler discards the total.
HandleOrphanExportCount ==
    /\ qres = NoQuery /\ qcall = NoPending
    /\ qcall' = Counted("export", QueryOpts(Int64(1), ExportPerPage),
                        GetOrphanFiles(local_files, torrent_files,
                                       QueryOpts(Int64(1), ExportPerPage)).total)
    /\ UNCHANGED <<torrent_files, local_files, batchSize, tables, qres>>
    /\ UNCHANGED <<scanVars, syncVars, fanVars, pathVars, cfgVars, insVars>>

\* The rest of Server.handleOrphanExport: the SELECT of the page by
\* GetOrphanFiles, and the path of each file written as one line.
HandleOrphanExport ==
    /\ qres = NoQuery /\ qcall # NoPending /\ qcall.source = "export"
    /\ qres' = [kind |-> "export", between |-> qcall.between,
                lines |-> ExportLines(GetOrphanFiles(local_files, torrent_files,
                                                     qcall.opts).files)]
    /\ qcall' = NoPending
    /\ UNCHANGED <<torrent_files, local_files, batchSize, tables>>
    /\ UNCHANGED <<scanVars, syncVars, fanVars, pathVars, cfgVars, insVars>>

\* Another connection (a sync pass) commits between the two statements of
\* a handler's query: an insert of one record, or a clear.
ServerInsertLocal ==
    /\ qcall # NoPending /\ ~qcall.between
    /\ \E k \in 1..(MaxLocalRows + 1) :
          /\ local_files' = InsertLocalFiles(local_files, <<ExportFile(k)>>,
                                             batchSize, 0).table
          /\ Len(local_files') <= MaxLocalRows + 1
    /\ qcall' = AfterWrite(local_files' # local_files)
    /\ UNCHANGED <<torrent_files, batchSize, tables, qres>>
    /\ UNCHANGED <<scanVars, syncVars, fanVars, pathVars, cfgVars, insVars>>

ServerClearLocal ==
    /\ qcall # NoPending /\ ~qcall.between
    /\ local_files' = ClearTable(local_files, FALSE).table
    /\ qcall' = AfterWrite(local_files' # local_files)
    /\ UNCHANGED <<torrent_files, batchSize, tables, qres>>
    /\ UNCHANGED <<scanVars, syncVars, fanVars, pathVars, cfgVars, insVars>>

ExportNext ==
    \/ HandleOrphanExportCount
    \/ HandleOrphanExport
    \/ ServerInsertLocal
    \/ ServerClearLocal

\* The int of value n, for -2^31 < n < 2^31, in two's complement.
Int64Of(n) ==
    IF n >= 0 THEN Int64(n)
    ELSE <<n % Limb, (n \div Limb) % Limb, Limb - 1, Limb - 1>>

\* The page and per_page parameters of a request: absent, a text strconv.Atoi
\* refuses, or a number.
PageParams == {Unset, NotANumber, Number(-1), Number(0), Number(1), Number(2)}
PerPageParams ==
    {Unset, NotANumber, Number(-1), Number(0), Number(1), Number(2),
     Number(MaxPerPage), Number(MaxPerPage + 1)}

\* The other parameters of a request, "" (<<>> for the search) when absent:
\* sort names of the whitelist and not, orders the handler takes and not, a
\* search, a category, and unique.
SortParams == {"", "file_path", "size", "relative_path"}
OrderParams == {"", "asc", "desc", "DESC"}
SearchParams == {<<>>, <<"/", "1">>}
CategoryParams == {"", "unknown"}
UniqueParams == {"", "true"}

\* The requests: those that page, and those that sort and filter.
Requests ==
    [page : PageParams, per_page : PerPageParams, sort : {""}, order : {""},
     search : {<<>>}, category : {""}, unique : {""}]
    \cup [page : {Unset}, per_page : {Unset}, sort : SortParams, order : OrderParams,
          search : SearchParams, category : CategoryParams, unique : UniqueParams]

\* parseQueryOptions: Page 1, PerPage 100 and Order "asc" unless the
\* parameter is a number above 0 and, for per_page, of at most 1000, or the
\* order is "asc" or "desc"; sort, search and category are taken as given.
\* The parameter unique is read and sets none of the fields of QueryOptions.
parseQueryOptions(r) ==
    [Page |-> IF r.page.set /\ r.page.number /\ r.page.v > 0
              THEN Int64Of(r.page.v) ELSE Int64(1),
     PerPage |-> IF r.per_page.set /\ r.per_page.number
                      /\ r.per_page.v > 0 /\ r.per_page.v <= 1000
                 THEN r.per_page.v ELSE 100,
     Sort |-> r.sort,
     Order |-> IF r.order = "asc" \/ r.order = "desc" THEN r.order ELSE "asc",
     Search |-> r.search,
     Category |-> r.category]

\* totalPages(total, perPage) of the response: Go's integer division of
\* two numbers that are not negative.
totalPages(total, perPage) == (total + perPage - 1) \div perPage

\* Server.handleOrphanFiles up to the SELECT COUNT(*) of GetOrphanFiles: the
\* options parsed from the request, and the total counted.
HandleOrphanFilesCount ==
    /\ qres = NoQuery /\ qcall = NoPending
    /\ \E r \in Requests :
          qcall' = [source |-> "orphan", request |-> r, opts |-> parseQueryOptions(r),
                    total |-> GetOrphanFiles(local_files, torrent_files,
                                             parseQueryOptions(r)).total,
                    between |-> FALSE]
    /\ UNCHANGED <<torrent_files, local_files, batchSize, tables, qres>>
    /\ UNCHANGED <<scanVars, syncVars, fanVars, pathVars, cfgVars, insVars>>

\* The response of handleOrphanFiles: the page selected now with the total
\* counted before, and the parsed page and per_page; used are the options
\* the query ran on.
OrphanFilesResponse(call, page) ==
    [kind |-> "page", request |-> call.request, opts |-> call.opts,
     used |-> normalizeQueryOptions(call.opts), between |-> call.between,
     res |-> [page EXCEPT !.total = call.total],
     Page |-> call.opts.Page, PerPage |-> call.opts.PerPage,
     TotalPages |-> totalPages(call.total, call.opts.PerPage)]

\* The rest of Server.handleOrphanFiles: the SELECT of the page by
\* GetOrphanFiles, and the response.
HandleOrphanFiles ==
    /\ qres = NoQuery /\ qcall # NoPending /\ qcall.source = "orphan"
    /\ qres' = OrphanFilesResponse(qcall,
                   GetOrphanFiles(local_files, torrent_files, qcall.opts))
    /\ qcall' = NoPending
    /\ UNCHANGED <<torrent_files, local_files, batchSize, tables>>
    /\ UNCHANGED <<scanVars, syncVars, fanVars, pathVars, cfgVars, insVars>>

\* A store of at most MaxLocalRows local rows.
ServerInit == ExportInit /\ Len(local_files) <= MaxLocalRows

ServerNext ==
    \/ HandleOrphanFilesCount
    \/ HandleOrphanFiles
    \/ ServerInsertLocal
    \/ ServerClearLocal

(***************************************************************************)
(* An insert call, statement by statement.                                 *)
(***************************************************************************)
\* The batch sizes NewStorage is given: every call of it passes
\* cfg.SQLiteBatchSize of a Config that config.Load has validated, and
\* Validate rejects a batch size below 1.
BatchSizes == 1..MaxBatch

\* The records given to the stepwise insert calls.
InsLocalPool ==
    { LocalFile(PathMntMoviesA, <<"a">>, 100),
      LocalFile(PathMoviesA, <<"a">>, 300),
      LocalFile(PathMntShowsB, <<"b">>, 200) }

InsTorrentPool ==
    { TorrentFile("h1", PathDataMoviesA, <<"a">>, 100),
      TorrentFile("h2", PathXC, <<"c">>, 200) }

NoInsert == [pc |-> "idle"]

InsIdle == ins = NoInsert

\* The table the call writes.
InsTable == IF ins.which = "torrent" THEN torrent_files ELSE local_files

\* The statement of the call on one record, in its transaction.
InsExecOne(tx, file) ==
    IF ins.which = "torrent" THEN ExecInsertTorrent(tx, file) ELSE ExecInsertLocal(tx, file)

\* A faulty Rollback: the statements of the transaction stay.
RollbackKeepsWork(before, tx) == tx

\* defer tx.Rollback() on a return before the commit: the table is as it
\* was when the transaction began.
Rollback(before, tx) == before

\* if len(files) == 0 { return nil }: the call of an empty list ends at once,
\* with no transaction; else BeginTx and PrepareContext.
\* failAt: the record whose statement fails or at which ctx is cancelled,
\* Len(files) + 1 for a commit that fails, 0 for none.
InsBegin(which, files, failAt) ==
    /\ ins.pc \in {"idle", "done", "failed"}
    /\ Len(IF which = "torrent" THEN torrent_files ELSE local_files) + Len(files)
          <= (IF which = "torrent" THEN MaxTorrentRows ELSE MaxLocalRows)
    /\ ins' = [pc |-> IF Len(files) = 0 THEN "done" ELSE "outer",
               which |-> which, files |-> files, failAt |-> failAt,
               before |-> IF which = "torrent" THEN torrent_files ELSE local_files,
               tx |-> IF which = "torrent" THEN torrent_files ELSE local_files,
               i |-> 0, j |-> 0, end |-> 0,
               execs |-> [k \in 1..Len(files) |-> 0]]
    /\ UNCHANGED storeVars
    /\ UNCHANGED <<scanVars, syncVars, fanVars, pathVars, cfgVars>>

InsStart ==
    \/ \E files \in {<<>>} \cup SeqsUpTo2(InsTorrentPool), failAt \in 0..3 :
          failAt <= Len(files) + 1 /\ InsBegin("torrent", files, failAt)
    \/ \E files \in {<<>>} \cup SeqsUpTo2(InsLocalPool), failAt \in 0..3 :
          failAt <= Len(files) + 1 /\ InsBegin("local", files, failAt)

\* for i := 0; i < len(files); i += s.batchSize { end := i + s.batchSize;
\* if end > len(files) { end = len(files) }; ... files[i:end]: the test of
\* the loop and the slice of the batch.  The slice expression panics when
\* end < i; the deferred Rollback runs as the panic unwinds.
InsOuter ==
    /\ ins.pc = "outer"
    /\ LET end == BatchEnd(ins.files, ins.i, batchSize)
       IN  IF ins.i >= Len(ins.files) THEN ins' = [ins EXCEPT !.pc = "commit"]
           ELSE IF end < ins.i \/ ins.i < 0
           THEN ins' = [ins EXCEPT !.pc = "panic", !.tx = Rollback(ins.before, ins.tx)]
           ELSE ins' = [ins EXCEPT !.pc = "inner", !.j = ins.i, !.end = end]
    /\ UNCHANGED storeVars
    /\ UNCHANGED <<scanVars, syncVars, fanVars, pathVars, cfgVars>>

\* One turn of  for _, file := range files[i:end] : the statement of the
\* record, or the return of its error; after the last record of the batch,
\* i += s.batchSize.
InsInner ==
    /\ ins.pc = "inner"
    /\ IF ins.j >= ins.end
       THEN /\ ins' = [ins EXCEPT !.pc = "outer", !.i = ins.i + batchSize]
            /\ UNCHANGED storeVars
       ELSE IF ins.failAt = ins.j + 1
       THEN /\ ins' = [ins EXCEPT !.pc = "failed", !.tx = Rollback(ins.before, ins.tx)]
            /\ torrent_files' = IF ins.which = "torrent"
                                THEN Rollback(ins.before, ins.tx) ELSE torrent_files
            /\ local_files' = IF ins.which = "local"
                              THEN Rollback(ins.before, ins.tx) ELSE local_files
            /\ UNCHANGED <<batchSize, tables, qcall, qres>>
       ELSE /\ ins' = [ins EXCEPT !.tx = InsExecOne(ins.tx, ins.files[ins.j + 1]),
                                  !.execs[ins.j + 1] = @ + 1,
                                  !.j = ins.j + 1]
            /\ UNCHANGED storeVars
    /\ UNCHANGED <<scanVars, syncVars, fanVars, pathVars, cfgVars>>

\* tx.Commit(): the rows of the transaction become the table, or the commit
\* fails and the deferred Rollback runs.
InsCommit ==
    /\ ins.pc = "commit"
    /\ LET fails == ins.failAt = Len(ins.files) + 1
           rows == IF fails THEN Rollback(ins.before, ins.tx) ELSE ins.tx
       IN  /\ ins' = [ins EXCEPT !.pc = IF fails THEN "failed" ELSE "done", !.tx = rows]
           /\ torrent_files' = IF ins.which = "torrent" THEN rows ELSE torrent_files
           /\ local_files' = IF ins.which = "local" THEN rows ELSE local_files
    /\ UNCHANGED <<batchSize, tables, qcall, qres>>
    /\ UNCHANGED <<scanVars, syncVars, fanVars, pathVars, cfgVars>>

InsNext ==
    \/ InsStart
    \/ InsOuter
    \/ InsInner
    \/ InsCommit

(***************************************************************************)
(* The specifications.                                                     *)
(***************************************************************************)
\* The store under any sequence of inserts and clears.
StoreSpecInit == StoreInit /\ ScanIdle /\ SyncIdle /\ FanIdle /\ PathIdle /\ CfgIdle /\ InsIdle
StoreSpec == StoreSpecInit /\ [][StoreNext]_vars

\* The store filled by one insert per table, then queried.
QuerySpecInit ==
    /\ StoreInit /\ batchSize = 1
    /\ ScanIdle /\ SyncIdle /\ FanIdle /\ PathIdle /\ CfgIdle /\ InsIdle
QuerySpec == QuerySpecInit /\ [][QueryNext]_vars

\* One scan with its consumer and a caller that may cancel it.
ScanSpecInit ==
    /\ StoreInit /\ batchSize = 1
    /\ ScanIdle /\ SyncIdle /\ FanIdle /\ PathIdle /\ CfgIdle /\ InsIdle
ScanSpec == ScanSpecInit /\ [][ScanNext]_vars

\* Sync passes one after the other on one database.
SyncSpecInit == SyncInit /\ FanIdle /\ PathIdle /\ CfgIdle /\ InsIdle
SyncSpec == SyncSpecInit /\ [][SyncNext]_vars

\* One call of SyncAll.
FanSpecInit ==
    /\ StoreInit /\ batchSize = 1
    /\ ScanIdle /\ SyncIdle /\ FanInit /\ PathIdle /\ CfgIdle /\ InsIdle
FanSpec == FanSpecInit /\ [][FanNext]_vars

\* The path functions on every input path.
PathSpecInit ==
    /\ StoreInit /\ batchSize = 1
    /\ ScanIdle /\ SyncIdle /\ FanIdle /\ PathInit /\ CfgIdle /\ InsIdle
PathSpec == PathSpecInit /\ [][PathNext]_vars

\* Insert calls one after the other on a store made with a batch size of
\* BatchSizes.
InsertSpecInit ==
    /\ torrent_files = <<>> /\ local_files = <<>> /\ qres = NoQuery /\ qcall = NoPending
    /\ batchSize \in BatchSizes
    /\ tables = createdTables
    /\ ScanIdle /\ SyncIdle /\ FanIdle /\ PathIdle /\ CfgIdle /\ InsIdle
InsertSpec == InsertSpecInit /\ [][InsNext]_vars

\* The same with a call that is not suspended for ever: a step of the call
\* that changes its state is taken.
InsertFairSpec ==
    InsertSpecInit /\ [][InsNext]_vars
    /\ WF_vars(InsOuter) /\ WF_vars(InsInner) /\ WF_vars(InsCommit)

\* The export on stores of every size.
ExportSpecInit ==
    /\ ExportInit
    /\ ScanIdle /\ SyncIdle /\ FanIdle /\ PathIdle /\ CfgIdle /\ InsIdle
ExportSpec == ExportSpecInit /\ [][ExportNext]_vars

\* The paged orphan query of the web server on every request.
ServerSpecInit ==
    /\ ServerInit
    /\ ScanIdle /\ SyncIdle /\ FanIdle /\ PathIdle /\ CfgIdle /\ InsIdle
ServerSpec == ServerSpecInit /\ [][ServerNext]_vars

\* The start of runSync on every configuration.
ConfigSpecInit ==
    /\ StoreInit /\ batchSize = 1
    /\ ScanIdle /\ SyncIdle /\ FanIdle /\ PathIdle /\ CfgInit /\ InsIdle
ConfigSpec == ConfigSpecInit /\ [][CfgNext]_vars

\* One call of SyncAll under the Go scheduler: a goroutine that can take a
\* step that needs no one else takes it.  Nothing is assumed of the
\* consumer (WorkerSendDeliver, ConsumerRecvErr) nor of the caller
\* (FanCancel).
FanFairness ==
    /\ WF_vars(FanListOk \/ FanListFail)
    /\ WF_vars(FanGo)
    /\ WF_vars(FanWait)
    /\ \A w \in Workers :
          /\ WF_vars(WorkerStart(w))
          /\ WF_vars(WorkerFetch(w))
          /\ WF_vars(WorkerLock(w))
          /\ WF_vars(WorkerSendCancelled(w))
          /\ WF_vars(WorkerSendDone(w))
FanFairSpec == FanSpecInit /\ [][FanNext]_vars /\ FanFairness

\* The same with a consumer that keeps receiving from files: a send that
\* stays offered is taken.  Nothing is assumed of the reader of errs.
FanConsumerSpec ==
    /\ FanSpecInit /\ [][FanNext]_vars /\ FanFairness
    /\ \A w \in Workers : WF_vars(WorkerSendDeliver(w))

(***************************************************************************)
(* The sync pass: C2 to C5.                                                *)
(***************************************************************************)
\* The rows of torrent_files after a clear and the insert of files.
TorrentRowsOf(files) == [k \in 1..Len(files) |-> TorrentRow(files[k])]

\* The pass logged the warning w.
Warned(w) == \E k \in 1..Len(warnings) : warnings[k] = w

\* C2: if the local scan of a pass ends with a terminal error, the pass
\* aborts before any local persistence: no record scanned so far is
\* inserted, the local inventory is not replaced by the partial scan and
\* the pass does not complete.
C2_ScanErrorAbortsBeforePersistence ==
    (spc = "closed" /\ scanErrs # <<>> /\ received # <<>>) =>
        /\ pc # "done"
        /\ \A f \in Range(received) : LocalRow(f) \notin Range(local_files)

\* C3: the clear and the insert of a table are one transaction: when the
\* pass fails in the insert of a table, after the clear of that table, the
\* table still holds the rows the previous pass committed.
C3_ClearAndInsertAtomic ==
    /\ (pc = "fatal" /\ fatalAt = "insertTorrent") => torrent_files = prevTorrent
    /\ (pc = "fatal" /\ fatalAt = "insertLocal") => local_files = prevLocal

\* C4: after a pass that ran to completion, whatever the outcome
\* of the login, the listing and the fetches, torrent_files holds only
\* records fetched during the pass and local_files only records scanned
\* during the pass.
C4_PassRebuildsBothInventories ==
    pc = "done" =>
        /\ Range(torrent_files) \subseteq {TorrentRow(f) : f \in Range(allFiles)}
        /\ Range(local_files) \subseteq {LocalRow(f) : f \in Range(received)}

\* C5: a failure of the login or of the listing is not fatal: it is logged
\* as a warning, the pass goes on to clear and scan the local side, it can
\* only be ended by a failure of the local clear or insert, it always has a
\* next step until it ends, and when it completes the scanned records are
\* in local_files.
C5_RemoteFailureIsNotFatal ==
    /\ pc = "fatal" =>
          fatalAt \in {"clearTorrent", "insertTorrent", "clearLocal", "insertLocal"}
    /\ (Warned("login") \/ Warned("list")) =>
          /\ pc \in {"clearLocal", "scan", "insertLocal", "done", "fatal"}
          /\ pc = "fatal" => fatalAt \in {"clearLocal", "insertLocal"}
          /\ pc \in {"clearLocal", "scan", "insertLocal"} => ENABLED SyncNext
          /\ pc = "done" =>
                /\ spc = "closed"
                /\ Range(local_files) = {LocalRow(f) : f \in Range(received)}
    /\ (pc # "login" /\ ~Warned("login") /\ ~Warned("list")) =>
          \/ pc \in {"clearTorrent", "getTorrents", "fetch"}
          \/ pc = "fatal" /\ fatalAt \in {"clearTorrent", "insertTorrent"}
          \/ torrent_files = TorrentRowsOf(allFiles)

\* A pass whose listing failed completed with scanned records inserted.
C5_Witness ==
    /\ pc = "done"
    /\ Warned("list")
    /\ Len(local_files) >= 2

(***************************************************************************)
(* The scanner: C9.                                                        *)
(***************************************************************************)
\* Entry k of the tree is below a hidden directory.
BelowHidden(t, k) ==
    \E j \in 1..(k - 1) :
        /\ t[j].isDir /\ isHidden(t[j].name)
        /\ HasPrefix(t[k].path, t[j].path \o <<"/">>)

\* The records of a complete scan of the tree.
CompleteScan(t) ==
    {LocalFile(t[k].path, t[k].name, t[k].size) :
        k \in {i \in 1..Len(t) : ~t[i].isDir /\ ~isHidden(t[i].name) /\ ~BelowHidden(t, i)}}

\* C9 as claimed: when ctx is cancelled after K records were emitted and
\* while entries remain to be visited, the consumer receives exactly K
\* records and then the cancellation error.  Stated for the scans in which
\* no entry fails.
C9_ExactlyKThenCancelled ==
    (spc = "closed" /\ ioErrAt = 0 /\ cancelAt >= 1 /\ cancelAt < Len(tree)) =>
        /\ Len(received) = emittedAtCancel
        /\ scanErrs = <<"canceled">>

\* C9 as amended: when ctx is cancelled after K records were emitted, the
\* consumer receives K records, or K + 1 when the callback had passed its
\* test of ctx for the next file; if the walk stopped before its last entry
\* exactly one terminal error is delivered, the cancellation or the I/O
\* error of the entry being visited; a scan that misses a record is never
\* reported with no error.
C9_AtMostOneMoreThenError ==
    (spc = "closed" /\ emittedAtCancel >= 0) =>
        /\ Len(received) \in {emittedAtCancel, emittedAtCancel + 1}
        /\ spos <= Len(tree) =>
              /\ Len(scanErrs) = 1
              /\ scanErrs[1] = "canceled" \/ (scanErrs[1] = "io" /\ spos = cancelAt)
        /\ Range(received) # CompleteScan(tree) => scanErrs # <<>>

\* A scan cancelled after its first record ended with that record alone
\* and the cancellation error.
C9_Witness ==
    /\ spc = "closed"
    /\ emittedAtCancel = 1
    /\ Len(received) = 1
    /\ scanErrs = <<"canceled">>
    /\ Cardinality(CompleteScan(tree)) = 2

(***************************************************************************)
(* The remote fan-out: C6, C7, C8, C10.                                    *)
(***************************************************************************)
\* Every error the error stream delivers: those received and the one still
\* in the buffer.
Reported == errStream \o errBuf

\* The number of times file f was delivered.
Deliveries(f) == Cardinality({i \in 1..Len(fileStream) : fileStream[i] = f})

\* C6: at any time the calls of GetTorrentFiles in flight are at most the
\* worker ceiling, which is 10 when NewClient was given a value <= 0.
C6_InFlightWithinCeiling ==
    Cardinality(InFlight) <= (IF cfgWorkers <= 0 THEN 10 ELSE cfgWorkers)

\* With a ceiling of 1, a fetch is in flight and the next torrent waits.
C6_Witness ==
    /\ cfgWorkers = 1
    /\ Cardinality(InFlight) = 1
    /\ fpc = "spawn"
    /\ nextT <= nTorrents

\* C7: without cancellation, when the fetch of exactly one torrent fails,
\* the file stream delivers every file of every other torrent once and no
\* file of the failed one, and the error stream delivers exactly one error,
\* the one of the failed torrent.
C7_OneFailureOthersDelivered ==
    (fpc = "closed" /\ ~fctxDone /\ Cardinality(failing) = 1) =>
        /\ \A t \in (1..nTorrents) \ failing : \A k \in 1..NumFiles(t) :
              Deliveries([torrent |-> t, file |-> k]) = 1
        /\ \A i \in 1..Len(fileStream) : fileStream[i].torrent \notin failing
        /\ \E t \in failing :
              Reported = <<[kind |-> "fetch", torrent |-> t, cause |-> "remote"]>>

\* Three torrents under a ceiling of 2, the second failed, the files of the
\* first were delivered.
C7_Witness ==
    /\ fpc = "closed" /\ ~fctxDone
    /\ nTorrents = 3 /\ failing = {2} /\ cfgWorkers = 2
    /\ Len(fileStream) = 2
    /\ Len(Reported) = 1

\* C8: if the listing fails, no fetch is started, no file is emitted, the
\* listing error is delivered on the error stream, and both streams are
\* closed.  (nextT = 0: the goroutine never reached the loop.)
C8_ListFailureReported ==
    (fpc = "closed" /\ nextT = 0) =>
        /\ \A w \in Workers : wpc[w] = "none"
        /\ fileStream = <<>>
        /\ Len(Reported) = 1
        /\ Reported[1].kind = "list"

\* Some file of a torrent whose fetch does not fail was not delivered.
Truncated ==
    \E t \in (1..nTorrents) \ failing : \E k \in 1..NumFiles(t) :
        Deliveries([torrent |-> t, file |-> k]) = 0

\* C10: when ctx is cancelled during the fan-out, the error stream reports
\* the cancellation.  Stated for its clearest case, a cancellation that cut
\* the result short, and counting any reported error caused by the
\* cancellation.
C10_CancellationIsReported ==
    (fpc = "closed" /\ cancelPhase = "spawn" /\ Truncated) =>
        \E i \in 1..Len(Reported) : Reported[i].cause = "canceled"

\* C11: once ctx is cancelled no call of GetTorrentFiles starts (the calls
\* in flight are those that were), and whatever the consumer does every
\* worker stops and SyncAll ends with both streams closed.
C11_CancelStopsFanOut ==
    /\ [][fctxDone => \A w \in Workers : wpc'[w] = "fetch" => wpc[w] = "fetch"]_vars
    /\ fctxDone ~> (fpc = "closed" /\ Active = {})

\* A cancelled fan-out ended with a worker that never fetched and with
\* files missing.
C11_Witness ==
    /\ fpc = "closed" /\ cancelPhase = "spawn"
    /\ nTorrents = 3 /\ failing = {}
    /\ Len(fileStream) = 1
    /\ \A w \in 1..nTorrents : wpc[w] = "done"

\* C12: in a completed pass whose login and listing succeeded, the files of
\* every listed torrent are in torrent_files unless its fetch failed, and
\* a failed fetch is recorded: a torrent whose files are missing has left a
\* warning in the log of the pass.
C12_FetchFailureRecorded ==
    (pc = "done" /\ ~Warned("login") /\ ~Warned("list")) =>
        \A k \in 1..Len(torrents) :
            \/ \A f \in Range(RemoteFilesOf(torrents[k])) :
                  TorrentRow(f) \in Range(torrent_files)
            \/ /\ Warned("fetch")
               /\ \A f \in Range(RemoteFilesOf(torrents[k])) :
                     TorrentRow(f) \notin Range(torrent_files)

(***************************************************************************)
(* The path functions: C13, C14, C15.                                      *)
(***************************************************************************)
\* Marker m occurs in path at 0-based index i.
OccursAt(path, m, i) ==
    /\ i >= 0 /\ i + Len(m) <= Len(path)
    /\ SubSeq(path, i + 1, i + Len(m)) = m

\* Marker m occurs in path.
Occurs(path, m) == \E i \in 0..Len(path) : OccursAt(path, m, i)

\* C13: the local key is idempotent: the key of a key is that key.
C13_LocalKeyIdempotent ==
    pathOut.op = "keykey" => pathOut.val = pathOut.of

\* C14: the key of a path in which a marker occurs is the path from the
\* smallest index at which one of the three markers occurs; the key of a
\* path in which none occurs is the path.
C14_KeyFromEarliestMarker ==
    pathOut.op = "extract" =>
        LET at == {i \in 0..Len(inPath) :
                      \E m \in {MarkerMovies, MarkerShows, Marker4k} : OccursAt(inPath, m, i)}
        IN  IF at = {} THEN pathOut.val = inPath
            ELSE \E i \in at :
                    /\ \A j \in at : i <= j
                    /\ pathOut.val = SubSeq(inPath, i + 1, Len(inPath))

\* C15: categorize returns the first of 4k, movies, shows whose form
\* between separators occurs somewhere in the path, and "unknown" exactly
\* when none does.
C15_CategoryByPriority ==
    pathOut.op = "categorize" =>
        /\ pathOut.val = "4k" <=> Occurs(inPath, Marker4k)
        /\ pathOut.val = "movies" <=>
              (~Occurs(inPath, Marker4k) /\ Occurs(inPath, MarkerMovies))
        /\ pathOut.val = "shows" <=>
              /\ ~Occurs(inPath, Marker4k) /\ ~Occurs(inPath, MarkerMovies)
              /\ Occurs(inPath, MarkerShows)
        /\ pathOut.val = "unknown" <=>
              /\ ~Occurs(inPath, Marker4k) /\ ~Occurs(inPath, MarkerMovies)
              /\ ~Occurs(inPath, MarkerShows)

\* categorize answered 4k for a path in which "/movies/" comes first and
\* "/4k/" after it.
C15_Witness ==
    /\ pathOut.op = "categorize" /\ pathOut.val = "4k"
    /\ OccursAt(inPath, MarkerMovies, 0)
    /\ OccursAt(inPath, Marker4k, 7)

(***************************************************************************)
(* The store: C16.                                                         *)
(***************************************************************************)
\* The path InsertLocalFiles stores for a record.
StoredPath(file) == normalizeLocalPath(file.FilePath)

\* C16: no two rows of local_files have the same stored path, and after an
\* insert each record given is found in one row, which has the size and
\* the category of the last record given with that stored path.
C16_LocalPathUnique ==
    /\ \A i, j \in 1..Len(local_files) :
          local_files[i].file_path = local_files[j].file_path => i = j
    /\ (qres.kind = "insertLocal" /\ ~qres.err) =>
          \A k \in 1..Len(qres.files) :
             LET same == {j \in 1..Len(qres.files) :
                             StoredPath(qres.files[j]) = StoredPath(qres.files[k])}
                 last == CHOOSE j \in same : \A i \in same : i <= j
                 rows == {i \in 1..Len(local_files) :
                             local_files[i].file_path = StoredPath(qres.files[k])}
             IN  /\ Cardinality(rows) = 1
                 /\ \A i \in rows :
                       /\ local_files[i].size = qres.files[last].Size
                       /\ local_files[i].category = qres.files[last].Category

\* "/mnt/movies/a" with size 100 and then "/movies/a" with size 300 were
\* given to one insert: one row is stored, with size 300.
C16_Witness ==
    /\ qres.kind = "insertLocal" /\ ~qres.err
    /\ qres.files = <<LocalFile(PathMntMoviesA, <<"a">>, 100),
                      LocalFile(PathMoviesA, <<"a">>, 300)>>
    /\ Len(local_files) = 1
    /\ local_files[1].size = 300

(***************************************************************************)
(* The queries: C17 to C20.                                                *)
(***************************************************************************)
\* The options ask for the first page, with no search and no category.
FirstPageNoFilter(opts) ==
    /\ opts.Page \in {Int64(0), Int64(1)}
    /\ opts.Search = <<>> /\ opts.Category = ""

\* The page size the store uses for the options.
PageSize(opts) ==
    IF opts.PerPage < 1 THEN 100 ELSE IF opts.PerPage > 1000 THEN 1000 ELSE opts.PerPage

\* GetLocalFiles was called with no filter and a page size of at least N
\* after N records were inserted into the empty table.
RoundTrip ==
    /\ qres.kind = "local"
    /\ qres.after.kind = "insertLocal" /\ ~qres.after.err
    /\ FirstPageNoFilter(qres.opts)
    /\ PageSize(qres.opts) >= Len(qres.after.files)

\* A path without its first four characters when these are "/mnt".
WithoutMount(path) ==
    IF Len(path) >= 4 /\ SubSeq(path, 1, 4) = <<"/", "m", "n", "t">>
    THEN SubSeq(path, 5, Len(path)) ELSE path

\* C17 as claimed: after N records are inserted into the empty local table,
\* GetLocalFiles with no filter and perPage >= N returns N records, and
\* their paths are the paths inserted.
C17_RoundTripSamePaths ==
    RoundTrip =>
        /\ Len(qres.res.files) = Len(qres.after.files)
        /\ {f.FilePath : f \in Range(qres.res.files)}
              = {f.FilePath : f \in Range(qres.after.files)}

\* C17 as amended: the records returned are as many as the inserted paths
\* are once "/mnt" is stripped from those that start with it, N when
\* these are distinct, and their paths are the stripped paths.
C17_RoundTripStoredPaths ==
    RoundTrip =>
        /\ Len(qres.res.files)
              = Cardinality({WithoutMount(f.FilePath) : f \in Range(qres.after.files)})
        /\ {f.FilePath : f \in Range(qres.res.files)}
              = {WithoutMount(f.FilePath) : f \in Range(qres.after.files)}

\* Two records under "/mnt" were inserted and two records came back.
C17_Witness ==
    /\ RoundTrip
    /\ qres.opts.PerPage = 2
    /\ Len(qres.after.files) = 2
    /\ Len(qres.res.files) = 2
    /\ \A f \in Range(qres.after.files) : WithoutMount(f.FilePath) # f.FilePath

\* The rows of the queried source that satisfy the filters of the options:
\* the rows by their position in the table.
MatchingRows ==
    IF qres.kind = "torrent"
    THEN {k \in 1..Len(torrent_files) : TorrentWhere(torrent_files[k], qres.opts)}
    ELSE IF qres.kind = "local"
    THEN {k \in 1..Len(local_files) : LocalWhere(local_files[k], qres.opts)}
    ELSE {k \in 1..Len(local_files) :
            /\ LocalWhere(local_files[k], qres.opts)
            /\ \A t \in Range(torrent_files) :
                  t.relative_path # local_files[k].relative_path}

\* The page asked for lies beyond the last page of total rows, that is
\* beyond ceil(total / perPage).
BeyondLastPage(opts, total) ==
    /\ ~IsNegative(opts.Page)
    /\ \/ opts.Page[2] # 0 \/ opts.Page[3] # 0 \/ opts.Page[4] # 0
       \/ (opts.Page[1] - 1) * PageSize(opts) >= total /\ opts.Page[1] >= 1

\* C18: a query's total is the number of rows that match its filters,
\* whatever the page and perPage, and a page beyond the last one returns no
\* row with that total.
C18_TotalAndEmptyPageBeyondLast ==
    qres.kind \in QueryKinds =>
        /\ qres.res.total = Cardinality(MatchingRows)
        /\ BeyondLastPage(qres.opts, qres.res.total) => qres.res.files = <<>>

\* The whitelist of sort names of the queried source.
Whitelist ==
    IF qres.kind = "torrent"
    THEN {"torrent_hash", "torrent_name", "file_name", "file_path", "size"}
    ELSE {"file_path", "file_name", "size", "category"}

\* A query of the first page with no filter was given a sort name that is
\* not of the whitelist of its source.
UnlistedSort ==
    /\ qres.kind \in QueryKinds
    /\ FirstPageNoFilter(qres.opts)
    /\ qres.opts.Sort # "" /\ qres.opts.Sort \notin Whitelist

\* C19: a sort name outside the whitelist is ignored: the ORDER BY clause of
\* the query is the default one, the name is no part of it, and the rows come
\* in the default order, the order of the table (of the ids) for the torrent
\* and local files and the size descending for the orphans.
C19_UnlistedSortIgnored ==
    UnlistedSort =>
        /\ qres.res.orderBy.col # qres.opts.Sort
        /\ qres.kind = "torrent" =>
              /\ qres.res.orderBy = [col |-> "id", dir |-> "asc"]
              /\ Len(qres.res.files) = Len(torrent_files)
              /\ \A k \in 1..Len(torrent_files) :
                    /\ qres.res.files[k].FilePath = torrent_files[k].file_path
                    /\ qres.res.files[k].TorrentHash = torrent_files[k].torrent_hash
        /\ qres.kind = "local" =>
              /\ qres.res.orderBy = [col |-> "id", dir |-> "asc"]
              /\ Len(qres.res.files) = Len(local_files)
              /\ \A k \in 1..Len(local_files) :
                    qres.res.files[k].FilePath = local_files[k].file_path
        /\ qres.kind = "orphan" =>
              /\ qres.res.orderBy = [col |-> "size", dir |-> "desc"]
              /\ \A i, j \in 1..Len(qres.res.files) :
                    i < j => qres.res.files[i].Size >= qres.res.files[j].Size

\* GetLocalFiles was asked to sort by text that is no column, descending,
\* and returned the two rows in the order of their insertion, the smaller
\* first.
C19_Witness ==
    /\ UnlistedSort
    /\ qres.kind = "local"
    /\ qres.opts.Sort = "size; DROP TABLE local_files" /\ qres.opts.Order = "desc"
    /\ Len(qres.res.files) = 2
    /\ qres.res.files[1].Size < qres.res.files[2].Size

\* Whether sub occurs in s when the case of ASCII letters is ignored.
OccursFolded(s, sub) ==
    \E i \in 1..(Len(s) - Len(sub) + 1) :
        \A k \in 1..Len(sub) : Fold(s[i + k - 1]) = Fold(sub[k])

\* The rows of the queried source whose file name or path contains the
\* search string, and that satisfy the category filter and, for the
\* orphans, have no torrent row of their key: the rows by their path.
SearchedPaths ==
    LET s == qres.opts.Search
        cat == qres.opts.Category
        has(r) == OccursFolded(r.file_name, s) \/ OccursFolded(r.file_path, s)
    IN  IF qres.kind = "torrent"
        THEN {r.file_path : r \in {t \in Range(torrent_files) : has(t)}}
        ELSE {r.file_path : r \in
                {l \in Range(local_files) :
                    /\ has(l)
                    /\ cat # "" => l.category = cat
                    /\ qres.kind = "orphan" =>
                          \A t \in Range(torrent_files) :
                              t.relative_path # l.relative_path}}

\* C20: a query with a search string s returns exactly the rows of its
\* source, within the category filter, whose file name or path contains s
\* as a substring whatever the case; no character of s is a wildcard.
C20_SearchIsSubstring ==
    (qres.kind \in QueryKinds /\ qres.opts.Search # <<>>) =>
        {f.FilePath : f \in Range(qres.res.files)} = SearchedPaths

(***************************************************************************)
(* The statistics of the store.                                            *)
(***************************************************************************)
\* allowedTables.
allowedTables == {"torrent_files", "local_files"}

\* A faulty FolderOf: the leading "/" of a path is skipped before the folder
\* is cut.
FolderOfSkipSlash(path) ==
    LET p == IF HasPrefix(path, <<"/">>) THEN SliceFrom(path, 1) ELSE path
    IN  IF Index(p, <<"/">>) + 1 > 0 THEN SubSeq(p, 1, Index(p, <<"/">>)) ELSE p

\* CASE WHEN instr(file_path, '/') > 0
\*      THEN substr(file_path, 1, instr(file_path, '/') - 1) ELSE file_path END
\* instr is the 1-based position of the first "/", 0 when there is none.
FolderOf(path) ==
    LET instr == Index(path, <<"/">>) + 1
    IN  IF instr > 0 THEN SubSeq(path, 1, instr - 1) ELSE path

RECURSIVE SumSize(_)
\* SUM(size) over rows.
SumSize(rows) == IF rows = <<>> THEN 0 ELSE Head(rows).size + SumSize(Tail(rows))

RECURSIVE AscendingText(_)
\* The texts of a set in ascending order, the order in which GROUP BY
\* produces its groups.
AscendingText(S) ==
    IF S = {} THEN <<>>
    ELSE LET m == CHOOSE x \in S : \A y \in S \ {x} : TextLess(x, y)
         IN  <<m>> \o AscendingText(S \ {m})

RECURSIVE ByTotalSizeDesc(_)
\* ORDER BY total_size DESC over the groups in the order of the grouping.
\* SQL leaves the order of groups of equal total to the engine: SQLite's
\* sorter returns them in the reverse of the order it was given them, the
\* descending order of the folders.  Each group goes after the groups of a
\* larger total and before the earlier groups of its own total.
ByTotalSizeDesc(groups) ==
    IF groups = <<>> THEN <<>>
    ELSE LET sorted == ByTotalSizeDesc(SubSeq(groups, 1, Len(groups) - 1))
             g == groups[Len(groups)]
             keep == {k \in 1..Len(sorted) : sorted[k].TotalSize > g.TotalSize}
             at == IF keep = {} THEN 0 ELSE CHOOSE k \in keep : \A j \in keep : j <= k
         IN  SubSeq(sorted, 1, at) \o <<g>> \o SubSeq(sorted, at + 1, Len(sorted))

\* Storage.GetFolderStats: an error and no query for a table outside
\* allowedTables, else one models.FolderStats per folder.
GetFolderStats(trows, lrows, table) ==
    IF table \notin allowedTables THEN [stats |-> <<>>, err |-> TRUE, queried |-> FALSE]
    ELSE LET rows == IF table = "torrent_files" THEN trows ELSE lrows
             folders == AscendingText({FolderOf(rows[k].file_path) : k \in 1..Len(rows)})
             group(f) == SelectSeq(rows, LAMBDA r : FolderOf(r.file_path) = f)
             groups == [k \in 1..Len(folders) |->
                          [Folder |-> folders[k], FileCount |-> Len(group(folders[k])),
                           TotalSize |-> SumSize(group(folders[k]))]]
         IN  [stats |-> ByTotalSizeDesc(groups), err |-> FALSE, queried |-> TRUE]

\* GROUP BY category ORDER BY category ASC over rows: one
\* models.CategoryStats per category that has a row.
CategoryStats(rows) ==
    LET cats == SelectSeq(<<"4k", "movies", "shows", "unknown">>,
                          LAMBDA c : \E k \in 1..Len(rows) : rows[k].category = c)
        group(c) == SelectSeq(rows, LAMBDA r : r.category = c)
    IN  [k \in 1..Len(cats) |->
            [Category |-> cats[k], FileCount |-> Len(group(cats[k])),
             TotalSize |-> SumSize(group(cats[k]))]]

\* Storage.GetLocalStats.
GetLocalStats(lrows) == CategoryStats(lrows)

\* A faulty GetOrphanStats: the test "t.relative_path IS NULL" is lost, so
\* every joined row is counted.
GetOrphanStatsNoNullTest(lrows, trows) ==
    LET joined == LeftJoin(lrows, trows)
    IN  CategoryStats([k \in 1..Len(joined) |-> joined[k].l])

\* Storage.GetOrphanStats.
GetOrphanStats(lrows, trows) ==
    LET hits == SelectSeq(LeftJoin(lrows, trows), LAMBDA j : j.t = NULL)
    IN  CategoryStats([k \in 1..Len(hits) |-> hits[k].l])

\* The records given to the inserts of the statistics specification: paths
\* with and without a leading "/", with no "/", and that differ by case.
StatsLocalPool ==
    { LocalFile(PathMntMoviesA, <<"a">>, 100),
      LocalFile(PathMntShowsB, <<"b">>, 200),
      LocalFile(MntPrefix \o <<"x", "/", "a">>, <<"a">>, 200),
      LocalFile(MntPrefix \o <<"x", "/", "b">>, <<"b">>, 300),
      LocalFile(MntPrefix \o <<"c">>, <<"c">>, 100) }

StatsTorrentPool ==
    { TorrentFile("h1", PathDataMoviesA, <<"a">>, 100),
      TorrentFile("h1", <<"x", "/", "a">>, <<"a">>, 200),
      TorrentFile("h2", <<"X", "/", "a">>, <<"a">>, 300),
      TorrentFile("h2", <<"c">>, <<"c">>, 100) }

StatsTables == {"torrent_files", "local_files", "local_files; DROP TABLE local_files"}

\* The inserts of the folder statistics, made before the call.
StatsInsertTorrent ==
    /\ qres.kind # "folderStats"
    /\ \E files \in SeqsUpTo2(StatsTorrentPool) :
        /\ Len(torrent_files) + Len(files) <= MaxTorrentRows
        /\ torrent_files' = InsertTorrentFiles(torrent_files, files, batchSize, 0).table
        /\ qres' = NoQuery
        /\ UNCHANGED <<local_files, batchSize, tables, qcall>>
    /\ UNCHANGED <<scanVars, syncVars, fanVars, pathVars, cfgVars, insVars>>

StatsInsertLocal ==
    /\ qres.kind # "folderStats"
    /\ \E files \in SeqsUpTo2(StatsLocalPool) :
        /\ Len(local_files) + Len(files) <= MaxLocalRows
        /\ local_files' = InsertLocalFiles(local_files, files, batchSize, 0).table
        /\ qres' = NoQuery
        /\ UNCHANGED <<torrent_files, batchSize, tables, qcall>>
    /\ UNCHANGED <<scanVars, syncVars, fanVars, pathVars, cfgVars, insVars>>

\* One call of GetFolderStats: one statement.
StatsFolders ==
    /\ qres.kind # "folderStats"
    /\ \E table \in StatsTables :
        qres' = [kind |-> "folderStats", table |-> table,
                 res |-> GetFolderStats(torrent_files, local_files, table)]
    /\ UNCHANGED <<torrent_files, local_files, batchSize, tables, qcall>>
    /\ UNCHANGED <<scanVars, syncVars, fanVars, pathVars, cfgVars, insVars>>

StatsNext ==
    \/ StatsInsertTorrent
    \/ StatsInsertLocal
    \/ StatsFolders

StatsSpec == QuerySpecInit /\ [][StatsNext]_vars

(***************************************************************************)
(* runStats: three calls on the database, one after the other, with no     *)
(* transaction around them and without Initialize.  Another process (a     *)
(* sync pass, the web server) creates the tables and commits its writes at *)
(* any point between them; one call of GetOrphanFiles with no filter runs  *)
(* at any point too, in its two statements.                                *)
(***************************************************************************)
\* Storage.GetTorrentStats: COUNT(*), COUNT(DISTINCT torrent_hash),
\* COALESCE(SUM(size), 0).
GetTorrentStats(trows) ==
    [TotalFiles |-> Len(trows),
     TotalTorrents |-> Cardinality({trows[k].torrent_hash : k \in 1..Len(trows)}),
     TotalSize |-> SumSize(trows)]

\* runStats before its first call, and no result of GetOrphanFiles yet.
NoRead == [read |-> FALSE]
StatsStart ==
    [kind |-> "stats", pc |-> "torrent", torrent |-> NoRead, local |-> <<>>,
     orphan |-> <<>>, query |-> NoRead, changed |-> FALSE]

\* A database file with no table: NewStorage opens (and creates) the file,
\* only Initialize creates the tables.
RunStatsInit ==
    /\ torrent_files = <<>>
    /\ local_files = <<>>
    /\ batchSize = 1
    /\ tables = {}
    /\ qres = StatsStart
    /\ qcall = NoPending

\* Storage.Initialize of another process, statement by statement: the table
\* torrent_files and its indexes, then the table local_files and its own.
InitializeTorrentFiles ==
    /\ "torrent_files" \notin tables
    /\ tables' = tables \cup {"torrent_files"}
    /\ UNCHANGED <<torrent_files, local_files, batchSize, qres, qcall>>
    /\ UNCHANGED <<scanVars, syncVars, fanVars, pathVars, cfgVars, insVars>>

InitializeLocalFiles ==
    /\ "torrent_files" \in tables /\ "local_files" \notin tables
    /\ tables' = tables \cup {"local_files"}
    /\ UNCHANGED <<torrent_files, local_files, batchSize, qres, qcall>>
    /\ UNCHANGED <<scanVars, syncVars, fanVars, pathVars, cfgVars, insVars>>

\* One of the reads has been made: a call of runStats, or the first
\* statement of the query.
ReadsBegun == qres.pc # "torrent" \/ qres.query # NoRead \/ qcall # NoPending

\* runStats has ended, with its statistics or in log.Fatalf.
RunStatsEnded == qres.pc \in {"done", "fatal"}

\* The other process may write: it has created the tables, runStats and the
\* query have not both ended, and no write has changed a table since the
\* reads began.
MayWrite ==
    /\ tables = createdTables
    /\ ~(RunStatsEnded /\ qres.query # NoRead)
    /\ ~qres.changed

\* qres after a write: whether it changed a table after the reads began.
AfterWriteStats(changed) == [qres EXCEPT !.changed = @ \/ (ReadsBegun /\ changed)]

\* The writes of the other process: an insert into an empty table, a clear.
RunStatsInsertTorrent ==
    /\ MayWrite /\ torrent_files = <<>>
    /\ \E files \in SeqsUpTo2(StatsTorrentPool) :
          torrent_files' = InsertTorrentFiles(torrent_files, files, batchSize, 0).table
    /\ qres' = AfterWriteStats(torrent_files' # torrent_files)
    /\ qcall' = AfterWrite(torrent_files' # torrent_files)
    /\ UNCHANGED <<local_files, batchSize, tables>>
    /\ UNCHANGED <<scanVars, syncVars, fanVars, pathVars, cfgVars, insVars>>

RunStatsInsertLocal ==
    /\ MayWrite /\ local_files = <<>>
    /\ \E files \in SeqsUpTo2(StatsLocalPool) :
          local_files' = InsertLocalFiles(local_files, files, batchSize, 0).table
    /\ qres' = AfterWriteStats(local_files' # local_files)
    /\ qcall' = AfterWrite(local_files' # local_files)
    /\ UNCHANGED <<torrent_files, batchSize, tables>>
    /\ UNCHANGED <<scanVars, syncVars, fanVars, pathVars, cfgVars, insVars>>

RunStatsClearTorrent ==
    /\ MayWrite /\ ReadsBegun /\ torrent_files # <<>>
    /\ torrent_files' = ClearTable(torrent_files, FALSE).table
    /\ qres' = AfterWriteStats(torrent_files' # torrent_files)
    /\ qcall' = AfterWrite(torrent_files' # torrent_files)
    /\ UNCHANGED <<local_files, batchSize, tables>>
    /\ UNCHANGED <<scanVars, syncVars, fanVars, pathVars, cfgVars, insVars>>

RunStatsClearLocal ==
    /\ MayWrite /\ ReadsBegun /\ local_files # <<>>
    /\ local_files' = ClearTable(local_files, FALSE).table
    /\ qres' = AfterWriteStats(local_files' # local_files)
    /\ qcall' = AfterWrite(local_files' # local_files)
    /\ UNCHANGED <<torrent_files, batchSize, tables>>
    /\ UNCHANGED <<scanVars, syncVars, fanVars, pathVars, cfgVars, insVars>>

\* runStats: store.GetTorrentStats(ctx), log.Fatalf on its error (no such
\* table).
RunStatsTorrent ==
    /\ qres.pc = "torrent"
    /\ qres' = IF "torrent_files" \notin tables
               THEN [qres EXCEPT !.pc = "fatal"]
               ELSE [qres EXCEPT !.pc = "local",
                                 !.torrent = GetTorrentStats(torrent_files)]
    /\ UNCHANGED <<torrent_files, local_files, batchSize, tables, qcall>>
    /\ UNCHANGED <<scanVars, syncVars, fanVars, pathVars, cfgVars, insVars>>

\* runStats: store.GetLocalStats(ctx).
RunStatsLocal ==
    /\ qres.pc = "local"
    /\ qres' = IF "local_files" \notin tables
               THEN [qres EXCEPT !.pc = "fatal"]
               ELSE [qres EXCEPT !.pc = "orphan", !.local = GetLocalStats(local_files)]
    /\ UNCHANGED <<torrent_files, local_files, batchSize, tables, qcall>>
    /\ UNCHANGED <<scanVars, syncVars, fanVars, pathVars, cfgVars, insVars>>

\* runStats: store.GetOrphanStats(ctx), then the statistics are printed.
RunStatsOrphan ==
    /\ qres.pc = "orphan"
    /\ qres' = IF tables # createdTables
               THEN [qres EXCEPT !.pc = "fatal"]
               ELSE [qres EXCEPT !.pc = "done",
                                 !.orphan = GetOrphanStats(local_files, torrent_files)]
    /\ UNCHANGED <<torrent_files, local_files, batchSize, tables, qcall>>
    /\ UNCHANGED <<scanVars, syncVars, fanVars, pathVars, cfgVars, insVars>>

\* GetOrphanFiles with no filter, called by a server that has run
\* Initialize: its SELECT COUNT(*).
RunStatsCountOrphans ==
    /\ tables = createdTables
    /\ qcall = NoPending /\ qres.query = NoRead
    /\ qcall' = Counted("orphan", QueryOpts(Int64(1), 0),
                        GetOrphanFiles(local_files, torrent_files,
                                       QueryOpts(Int64(1), 0)).total)
    /\ UNCHANGED <<torrent_files, local_files, batchSize, tables, qres>>
    /\ UNCHANGED <<scanVars, syncVars, fanVars, pathVars, cfgVars, insVars>>

\* The rest of that call: the SELECT of the page; what it returns.
RunStatsQueryOrphans ==
    /\ qcall # NoPending
    /\ qres' = [qres EXCEPT !.query =
                   [GetOrphanFiles(local_files, torrent_files, qcall.opts)
                       EXCEPT !.total = qcall.total]]
    /\ qcall' = NoPending
    /\ UNCHANGED <<torrent_files, local_files, batchSize, tables>>
    /\ UNCHANGED <<scanVars, syncVars, fanVars, pathVars, cfgVars, insVars>>

RunStatsNext ==
    \/ InitializeTorrentFiles
    \/ InitializeLocalFiles
    \/ RunStatsInsertTorrent
    \/ RunStatsInsertLocal
    \/ RunStatsClearTorrent
    \/ RunStatsClearLocal
    \/ RunStatsTorrent
    \/ RunStatsLocal
    \/ RunStatsOrphan
    \/ RunStatsCountOrphans
    \/ RunStatsQueryOrphans

RunStatsSpecInit ==
    /\ RunStatsInit
    /\ ScanIdle /\ SyncIdle /\ FanIdle /\ PathIdle /\ CfgIdle /\ InsIdle
RunStatsSpec == RunStatsSpecInit /\ [][RunStatsNext]_vars

(***************************************************************************)
(* The statistics: C21 and C28.                                            *)
(***************************************************************************)
\* The text of a path before its first "/", the whole path when it has none.
FirstSegment(path) ==
    LET n == CHOOSE n \in 0..Len(path) :
                /\ \A i \in 1..n : path[i] # "/"
                /\ n = Len(path) \/ path[n + 1] = "/"
    IN  SubSeq(path, 1, n)

RECURSIVE SizeOver(_, _)
\* The sum of the sizes of the rows at the positions I.
SizeOver(rows, I) ==
    IF I = {} THEN 0
    ELSE LET i == CHOOSE i \in I : TRUE
         IN  rows[i].size + SizeOver(rows, I \ {i})

\* C21: GetFolderStats on one of the two tables returns one entry per first
\* segment of the stored paths, with the number and the summed size of the
\* rows of that segment, by summed size descending; on any other table name
\* it returns an error and runs no query.
C21_FolderStatsByFirstSegment ==
    qres.kind = "folderStats" =>
        LET st == qres.res.stats
            rows == IF qres.table = "torrent_files" THEN torrent_files ELSE local_files
            of(f) == {i \in 1..Len(rows) : FirstSegment(rows[i].file_path) = f}
        IN  IF qres.table \notin {"torrent_files", "local_files"}
            THEN qres.res.err /\ ~qres.res.queried /\ st = <<>>
            ELSE /\ ~qres.res.err
                 /\ {st[k].Folder : k \in 1..Len(st)}
                       = {FirstSegment(rows[i].file_path) : i \in 1..Len(rows)}
                 /\ \A j, k \in 1..Len(st) : j # k => st[j].Folder # st[k].Folder
                 /\ \A k \in 1..Len(st) :
                       /\ st[k].FileCount = Cardinality(of(st[k].Folder))
                       /\ st[k].TotalSize = SizeOver(rows, of(st[k].Folder))
                 /\ \A j, k \in 1..Len(st) : j < k => st[j].TotalSize >= st[k].TotalSize

\* The folders of three local rows were read: the two rows under "x" first,
\* then the row whose path starts with "/", under the empty name.
C21_Witness ==
    /\ qres.kind = "folderStats" /\ qres.table = "local_files"
    /\ Len(local_files) = 3
    /\ Len(qres.res.stats) = 2
    /\ qres.res.stats[1].Folder = <<"x">> /\ qres.res.stats[1].FileCount = 2
    /\ qres.res.stats[2].Folder = <<>>

RECURSIVE CountOver(_)
\* The sum of the file counts of a list of statistics.
CountOver(stats) ==
    IF stats = <<>> THEN 0 ELSE Head(stats).FileCount + CountOver(Tail(stats))

\* runStats and the orphan query with no filter have both ended, and no
\* write changed a table since the first of their reads: every result was
\* read on the tables as they are.
StatsAndQueryRead ==
    /\ qres.kind = "stats" /\ qres.pc = "done"
    /\ qres.query # NoRead
    /\ ~qres.changed

\* C28: on the same contents of the two tables, the file counts of
\* GetOrphanStats add up to the total of GetOrphanFiles with no filter, which
\* is the number of local rows whose key is the key of no torrent row, and
\* each category of the orphan statistics is a category of GetLocalStats with
\* at least its count and summed size.
C28_OrphanStatsAgree ==
    StatsAndQueryRead =>
        /\ CountOver(qres.orphan) = qres.query.total
        /\ qres.query.total = Cardinality({k \in 1..Len(local_files) :
                                             local_files[k] \in OrphanRowSet})
        /\ \A i \in 1..Len(qres.orphan) :
              \E j \in 1..Len(qres.local) :
                  /\ qres.local[j].Category = qres.orphan[i].Category
                  /\ qres.orphan[i].FileCount <= qres.local[j].FileCount
                  /\ qres.orphan[i].TotalSize <= qres.local[j].TotalSize

\* The statistics and the query were read on two local rows of one category,
\* one of them matched by a torrent row and the other an orphan.
C28_Witness ==
    /\ StatsAndQueryRead
    /\ Len(local_files) = 2 /\ torrent_files # <<>>
    /\ qres.query.total = 1
    /\ \E i \in 1..Len(qres.orphan), j \in 1..Len(qres.local) :
          /\ qres.local[j].Category = qres.orphan[i].Category
          /\ qres.orphan[i].FileCount < qres.local[j].FileCount

(***************************************************************************)
(* The scanner: C22 and C23.                                               *)
(***************************************************************************)
\* Entry k of the tree lies below a directory whose name starts with ".",
\* the root included.
UnderHiddenDir(t, k) ==
    \E j \in 1..(k - 1) :
        /\ t[j].isDir /\ Len(t[j].name) > 0 /\ Head(t[j].name) = "."
        /\ \A i \in (j + 1)..k : t[i].depth > t[j].depth

\* The entries a scan has to emit: the files that are not hidden and not
\* below a hidden directory.
Emitted(t) ==
    {k \in 1..Len(t) : /\ ~t[k].isDir
                       /\ ~(Len(t[k].name) > 0 /\ Head(t[k].name) = ".")
                       /\ ~UnderHiddenDir(t, k)}

\* C22: a scan that is not cancelled and meets no I/O error delivers one
\* record for each file that is neither hidden nor below a hidden
\* directory, in the order of the walk, and nothing else: no directory, no
\* hidden entry, no file below a hidden directory, and no error.
C22_ScanEmitsEachVisibleFileOnce ==
    (spc = "closed" /\ ~ctxDone /\ ioErrAt = 0) =>
        /\ scanErrs = <<>>
        /\ Len(received) = Cardinality(Emitted(tree))
        /\ \A k \in Emitted(tree) :
              Cardinality({i \in 1..Len(received) :
                              received[i].FilePath = tree[k].path}) = 1
        /\ \A i \in 1..Len(received) :
              \E k \in Emitted(tree) :
                  /\ received[i].FilePath = tree[k].path
                  /\ received[i].FileName = tree[k].name
                  /\ received[i].Size = tree[k].size

\* The scan of the tree with a hidden directory and a hidden file ended
\* with the two media files, the second of them after the hidden file.
C22_Witness ==
    /\ spc = "closed" /\ ~ctxDone /\ ioErrAt = 0
    /\ tree = TreeMedia
    /\ Len(received) = 2
    /\ received[1].FilePath = PathMntMoviesA

\* The callback was given an I/O error: the error of WalkDir for a
\* directory, or the error of d.Info() for a file.
IoErrorRaised == cbErr = "io" \/ walkErr = "io"

\* The walk stopped at the entry of the error, and the records received
\* are records of entries before it, each of them once.
StoppedAtError ==
    /\ spos = ioErrAt
    /\ \A i \in 1..Len(received) :
          \E k \in Emitted(tree) : k < ioErrAt /\ received[i].FilePath = tree[k].path
    /\ \A i, j \in 1..Len(received) :
          i # j => received[i].FilePath # received[j].FilePath
    /\ ~ctxDone => Len(received) = Cardinality({k \in Emitted(tree) : k < ioErrAt})

\* C23 as claimed: when an entry raises an I/O error the walk stops at that
\* entry, no later entry is emitted, the records emitted before stay
\* delivered and the error is the single terminal error.
C23_IoErrorIsTheTerminalError ==
    (spc = "closed" /\ IoErrorRaised) =>
        /\ StoppedAtError
        /\ scanErrs = <<"io">>

\* C23 as amended: the single terminal error is the I/O error, or the
\* cancellation error when ctx was cancelled before the callback was called
\* with the error of WalkDir.
C23_IoErrorOrCancellationIsTerminal ==
    (spc = "closed" /\ IoErrorRaised) =>
        /\ StoppedAtError
        /\ Len(scanErrs) = 1
        /\ scanErrs[1] = "io" \/ (scanErrs[1] = "canceled" /\ cbErr = "io" /\ ctxDone)
        /\ ~ctxDone => scanErrs = <<"io">>

\* The directory of the shows could not be read after the record of the
\* movies was delivered: the scan ended with that record and the error.
C23_Witness ==
    /\ spc = "closed" /\ ~ctxDone
    /\ tree = TreeMedia /\ ioErrAt = 7 /\ cbErr = "io"
    /\ Len(received) = 1
    /\ scanErrs = <<"io">>

(***************************************************************************)
(* The configuration: C24.                                                 *)
(***************************************************************************)
\* The value a field of the configuration takes: the number of the
\* environment, else the number of the file, else the default.
Configured(env, file, default) ==
    IF env.set /\ env.number THEN env.v ELSE IF file # 0 THEN file ELSE default

\* C24: when the worker count or the batch size of the configuration is not
\* positive the command ends at the validation with no I/O begun and no
\* component made, and no component is ever made with a worker count or a
\* batch size that is not positive.
C24_InvalidConfigRejectedBeforeIO ==
    /\ (cpc \notin {"idle", "load"}
          /\ \/ Configured(cfgEnv.QBittorrentMaxWorkers, cfgFile.QBittorrentMaxWorkers, 10) < 1
             \/ Configured(cfgEnv.SQLiteBatchSize, cfgFile.SQLiteBatchSize, 1000) < 1)
         => (cpc = "fatal" /\ comps = <<>>)
    /\ \A k \in 1..Len(comps) :
          /\ comps[k].io = "store" => comps[k].batchSize >= 1
          /\ comps[k].io = "client" => comps[k].maxWorkers >= 1

\* The environment set the worker count to 0 and the batch size to 2: the
\* command ended at the validation before any I/O.
C24_Witness ==
    /\ cpc = "fatal" /\ comps = <<>>
    /\ cfgEnv.QBittorrentMaxWorkers = Number(0)
    /\ cfgEnv.SQLiteBatchSize = Number(2)

(***************************************************************************)
(* The insert calls: C25 and C29.                                          *)
(***************************************************************************)
\* C25: from the start of an insert call until its commit, and after a call
\* that failed on a record, was cancelled at a record or failed to commit,
\* the table holds the rows it held before the call.
C25_FailedInsertLeavesTable ==
    ins.pc \in {"outer", "inner", "commit", "failed", "panic"} => InsTable = ins.before

\* A call on a table that held a row failed on its second record, after the
\* statement of the first: the table is as it was.
C25_Witness ==
    /\ ins.pc = "failed" /\ ins.which = "local"
    /\ ins.before # <<>>
    /\ ins.failAt = 2 /\ ins.execs[1] = 1
    /\ local_files = ins.before

RECURSIVE RowsAfter(_, _, _)
\* The rows of a table after the records of a list are written one by one.
RowsAfter(table, which, files) ==
    IF files = <<>> THEN table
    ELSE RowsAfter(IF which = "torrent"
                   THEN Append(table, TorrentRow(Head(files)))
                   ELSE Append(SelectSeq(table,
                                         LAMBDA r : r.file_path # LocalRow(Head(files)).file_path),
                               LocalRow(Head(files))),
                   which, Tail(files))

\* C29: for every batch size of the store an insert call ends, and a call
\* that ends with no error has run the statement of each record once and
\* stored the rows that do not depend on the batch size.
C29_BatchLoopTerminates ==
    /\ (ins.pc = "outer") ~> (ins.pc \in {"done", "failed"})
    /\ [](ins.pc = "done" =>
            /\ \A k \in 1..Len(ins.files) : ins.execs[k] = 1
            /\ InsTable = RowsAfter(ins.before, ins.which, ins.files))

\* A call of two records on a store of batch size 1, two batches, ended
\* with no error on a table that held a row.
C29_Witness ==
    /\ ins.pc = "done" /\ ins.which = "local"
    /\ batchSize = 1 /\ Len(ins.files) = 2
    /\ ins.before # <<>>
    /\ \A k \in 1..2 : ins.execs[k] = 1

(***************************************************************************)
(* The export: C26.                                                        *)
(***************************************************************************)
\* The positions of the local rows whose key is the key of no torrent row.
OrphanPositions ==
    {k \in 1..Len(local_files) :
        \A t \in Range(torrent_files) : t.relative_path # local_files[k].relative_path}

\* C26: the export writes one line for every orphan of the store, whatever
\* their number: the path of each orphan, each once.
C26_ExportWritesEveryOrphan ==
    qres.kind = "export" =>
        /\ Len(qres.lines) = Cardinality(OrphanPositions)
        /\ Range(qres.lines) = {local_files[k].file_path : k \in OrphanPositions}

(***************************************************************************)
(* The paging of a request: C27.                                           *)
(***************************************************************************)
\* The options a caller of the store builds from the numbers of a request:
\* the number given, and Go's zero value for a parameter that is absent or
\* not a number.
OptionsOf(r) ==
    QueryOpts(IF r.page.set /\ r.page.number THEN Int64Of(r.page.v) ELSE Int64(0),
              IF r.per_page.set /\ r.per_page.number THEN r.per_page.v ELSE 0)

Absent(param) == ~param.set \/ ~param.number
BelowOne(param) == param.set /\ param.number /\ param.v < 1

\* C27: the page and perPage a store query uses are at least 1, with perPage
\* at most 1000; they are 1 and 100 when the parameter is absent or below 1;
\* and they are the page and perPage the store resolves the same request to.
C27_PagingResolvedAlike ==
    qres.kind = "page" =>
        LET r == qres.request
            store == normalizeQueryOptions(OptionsOf(r))
        IN  /\ ~IsNegative(qres.used.Page) /\ ~IsZero(qres.used.Page)
            /\ qres.used.PerPage >= 1 /\ qres.used.PerPage <= 1000
            /\ Len(qres.res.files) <= qres.used.PerPage
            /\ Absent(r.page) \/ BelowOne(r.page) => qres.used.Page = Int64(1)
            /\ Absent(r.per_page) \/ BelowOne(r.per_page) => qres.used.PerPage = 100
            /\ qres.used.Page = store.Page
            /\ qres.used.PerPage = store.PerPage

(***************************************************************************)
(* The fan-out with a receiving consumer: C30.                             *)
(***************************************************************************)
\* C30: with a consumer that keeps receiving from the file stream, and
\* whether or not anyone reads the error stream, SyncAll ends: every worker
\* has returned, the mutex is free and both streams are closed, for good.
C30_SyncAllEnds ==
    <>[](fpc = "closed" /\ Active = {} /\ mu = 0)

\* An uncancelled fan-out over three torrents, the second failing, has ended
\* with every file delivered and the error still unread in the buffer.
C30_Witness ==
    /\ fpc = "closed" /\ Active = {} /\ mu = 0
    /\ ~fctxDone
    /\ nTorrents = 3 /\ failing = {2}
    /\ Len(fileStream) = NumFiles(1) + NumFiles(3)
    /\ errStream = <<>> /\ Len(errBuf) = 1

====
